---- MODULE Spec2Model ----
(***************************************************************************)
(* COWFS: a copy-on-write filesystem.  The metadata store (SQLite tables   *)
(* files, versions, objects, snapshots, snapshot_entries, events), the     *)
(* content-addressed object store, the FUSE adapter's in-memory state and  *)
(* the operator commands (restore, gc, snapshot create/delete/restore).    *)
(*                                                                         *)
(* Every handler is one atomic action: the adapter's event loop and the    *)
(* operator's process are taken one call at a time.  A transaction is      *)
(* computed on a value of the database (the record Db); commit makes it    *)
(* the state, rollback discards it.                                        *)
(***************************************************************************)
EXTENDS Integers, Sequences, FiniteSets, TLC

\* ------------------------------------------------------------ bounds
MaxVersionId == 3      \* version ids handed out by AUTOINCREMENT
MaxTime == 1           \* CURRENT_TIMESTAMP runs over 0..MaxTime (seconds)
MaxFh == 2             \* file handles handed out by _alloc_fh
MaxSnapshotId == 2     \* snapshot ids handed out by AUTOINCREMENT
MaxEvents == 6         \* rows of the events table
MaxFiles == 4          \* rows of the files table, the root included
MaxIno == 4            \* files created in the store's directory by put threads

\* ------------------------------------------------------------ constants
NULL == 0              \* SQL NULL of an integer column (ids start at 1)
ROOT_INODE == 1

NoPath == <<>>         \* SQL NULL of events.path
NoHash == <<>>         \* SQL NULL of events.object_hash

Slash == "/"
FileNames == {<<"a">>, <<"b">>}
SnapshotNames == {"s1", "s2"}
WriteOffsets == {0}
MinRefCount == 0        \* lowest ref_count decrement_ref_count is taken to
MaxReadLength == 2     \* read(fh, 0, MaxReadLength) returns the whole file
WriteBufs == {<<1>>, <<2>>}
PutThreads == {"t1", "t2"}

VARIABLES
    files,              \* table files: sequence of rows, id = index
    versions,           \* table versions: set of rows
    objects,            \* table objects: sequence of rows in rowid order
    snapshots,          \* table snapshots: set of rows
    snapshot_entries,   \* table snapshot_entries: set of rows
    events,             \* table events: sequence of rows, id = index
    sqlite_sequence,    \* AUTOINCREMENT counters of versions and snapshots
    blobs,              \* the object store: hash -> bytes of the blob file
    now,                \* the value of CURRENT_TIMESTAMP
    write_buffers,      \* COWFS._write_buffers: inode -> bytes
    file_handles,       \* COWFS._file_handles: fh -> [inode, dirty]
    next_fh,            \* COWFS._next_fh
    inode_hash_cache,   \* COWFS._inode_hash_cache
    inode_size_cache,   \* COWFS._inode_size_cache
    result,             \* exit status and payload of the last call
    put_threads,        \* threads inside ObjectStore.store_sync: t -> [pc, data, fd]
    tmp_files,          \* the <hash>.tmp files of the store: hash -> [ino, data]
    blob_inos,          \* the file behind a blob that a thread renamed into place
    next_ino,           \* the next file the store's directory creates
    flush_jobs,         \* _flush_inode_sync calls running in a worker thread
    conn_tx             \* the open transaction of the shared connection

vars == <<files, versions, objects, snapshots, snapshot_entries, events,
          sqlite_sequence, blobs, now, write_buffers, file_handles, next_fh,
          inode_hash_cache, inode_size_cache, result, put_threads, tmp_files,
          blob_inos, next_ino, flush_jobs, conn_tx>>

\* the state of the worker threads
threadVars == <<put_threads, tmp_files, blob_inos, next_ino, flush_jobs,
                conn_tx>>

dbVars == <<files, versions, objects, snapshots, snapshot_entries, events,
            sqlite_sequence>>
fsVars == <<write_buffers, file_handles, next_fh, inode_hash_cache,
            inode_size_cache>>

\* ------------------------------------------------------------ helpers
Range(s) == {s[i] : i \in DOMAIN s}

\* f with key k removed (dict.pop(k, None))
Pop(f, k) == [x \in DOMAIN f \ {k} |-> f[x]]
\* f with f[k] = v (dict[k] = v)
Put(f, k, v) == [x \in DOMAIN f \cup {k} |-> IF x = k THEN v ELSE f[x]]

\* ------------------------------------------------------------ object store
compute_hash(data) == <<"sha256", data>>
EMPTY_HASH == compute_hash(<<>>)

exists(b, obj_hash) == obj_hash \in DOMAIN b

\* a store that writes nothing
store_sync_writes_nothing(b, data) == b

\* store_sync: the blob is written only when its path does not exist
store_sync(b, data) ==
    IF ~exists(b, compute_hash(data))
    THEN Put(b, compute_hash(data), data)
    ELSE b

read_sync(b, obj_hash) == b[obj_hash]

\* delete_sync: [blobs after, bytes freed]
delete_sync(b, obj_hash) ==
    IF ~exists(b, obj_hash)
    THEN [blobs |-> b, freed |-> 0]
    ELSE [blobs |-> Pop(b, obj_hash), freed |-> Len(b[obj_hash])]

\* ------------------------------------------------------------ metadata store
Db == [files |-> files, versions |-> versions, objects |-> objects,
       snapshots |-> snapshots, snapshot_entries |-> snapshot_entries,
       events |-> events, sqlite_sequence |-> sqlite_sequence]

\* commit: the transaction's value becomes the stored state
commit(d) ==
    /\ files' = d.files
    /\ versions' = d.versions
    /\ objects' = d.objects
    /\ snapshots' = d.snapshots
    /\ snapshot_entries' = d.snapshot_entries
    /\ events' = d.events
    /\ sqlite_sequence' = d.sqlite_sequence

\* the tables stay within the bounds of the model
WithinBounds(d) ==
    /\ d.sqlite_sequence.versions <= MaxVersionId
    /\ d.sqlite_sequence.snapshots <= MaxSnapshotId
    /\ Len(d.events) <= MaxEvents
    /\ Len(d.files) <= MaxFiles

ROOT_INODE_SQL ==
    [parent_id |-> ROOT_INODE, name |-> <<>>, path |-> <<Slash>>,
     is_dir |-> TRUE, current_version_id |-> NULL, is_deleted |-> FALSE]

\* the id of the live row, or NULL
get_file(d, inode) ==
    IF inode \in DOMAIN d.files /\ ~d.files[inode].is_deleted
    THEN inode ELSE NULL

\* the id of a row with that path, or NULL
get_file_by_path(d, path, include_deleted) ==
    LET hits == {i \in DOMAIN d.files :
                    /\ d.files[i].path = path
                    /\ (include_deleted \/ ~d.files[i].is_deleted)}
    IN IF hits = {} THEN NULL ELSE CHOOSE i \in hits : TRUE

\* the ids of the live rows with that parent and name
lookup(d, parent_id, name) ==
    {i \in DOMAIN d.files :
        /\ d.files[i].parent_id = parent_id
        /\ d.files[i].name = name
        /\ ~d.files[i].is_deleted}

list_children(d, parent_id) ==
    {i \in DOMAIN d.files :
        /\ d.files[i].parent_id = parent_id
        /\ ~d.files[i].is_deleted
        /\ i # parent_id}

\* UNIQUE(path): the INSERT raises IntegrityError on an existing path
\* a UNIQUE(path) that soft-deleted rows do not take part in
create_file_conflict_live_only(d, path) == \E i \in DOMAIN d.files : d.files[i].path = path /\ ~d.files[i].is_deleted

create_file_conflict(d, path) == \E i \in DOMAIN d.files : d.files[i].path = path

create_file(d, parent_id, name, path, is_dir) ==
    [d EXCEPT !.files = Append(@,
        [parent_id |-> parent_id, name |-> name, path |-> path,
         is_dir |-> is_dir, current_version_id |-> NULL,
         is_deleted |-> FALSE])]

\* an event log that records nothing
record_event_nothing(d, action, path, version_id, object_hash) == d

record_event(d, action, path, version_id, object_hash) ==
    [d EXCEPT !.events = Append(@,
        [action |-> action, path |-> path, version_id |-> version_id,
         object_hash |-> object_hash])]

\* a soft delete that also forgets the current version
soft_delete_file_clears_version(d, inode, action) ==
    record_event([d EXCEPT !.files[inode].is_deleted = TRUE,
                           !.files[inode].current_version_id = NULL],
                 action, d.files[inode].path, NULL, NoHash)

soft_delete_file(d, inode, action) ==
    LET path == IF get_file(d, inode) # NULL THEN d.files[inode].path ELSE NoPath
        d1 == IF inode \in DOMAIN d.files
              THEN [d EXCEPT !.files[inode].is_deleted = TRUE]
              ELSE d
    IN record_event(d1, action, path, NULL, NoHash)

\* an undelete that writes nothing
set_file_deleted_nothing(d, inode, is_deleted) == d

set_file_deleted(d, inode, is_deleted) ==
    IF inode \in DOMAIN d.files
    THEN [d EXCEPT !.files[inode].is_deleted = is_deleted]
    ELSE d

\* SQLite's lower-casing of ASCII letters for LIKE
lower(c) ==
    CASE c = "A" -> "a"
      [] c = "B" -> "b"
      [] c = "D" -> "d"
      [] c = "E" -> "e"
      [] OTHER -> c

\* str LIKE pattern: % matches any run of characters, _ any one character,
\* letters match without regard to case
RECURSIVE like(_, _)
like(pattern, str) ==
    IF pattern = <<>> THEN str = <<>>
    ELSE IF Head(pattern) = "%"
    THEN \E k \in 0..Len(str) :
            like(Tail(pattern), SubSeq(str, k + 1, Len(str)))
    ELSE /\ str # <<>>
         /\ (Head(pattern) = "_" \/ lower(Head(pattern)) = lower(Head(str)))
         /\ like(Tail(pattern), Tail(str))

\* substr(str, start): the characters from the 1-based position start on
substr(str, start) == SubSeq(str, start, Len(str))

\* UNIQUE(path) over all rows, soft-deleted ones included
unique_path_violation(fs) ==
    \E i, j \in DOMAIN fs : i # j /\ fs[i].path = fs[j].path

\* a rename on a table without UNIQUE(path)
rename_file_without_unique(d, inode, new_parent_id, new_name, new_path) ==
    IF get_file(d, inode) = NULL THEN [ok |-> TRUE, db |-> d]
    ELSE [ok |-> TRUE,
          db |-> [d EXCEPT !.files[inode].parent_id = new_parent_id,
                           !.files[inode].name = new_name,
                           !.files[inode].path = new_path]]

\* a rename that leaves the rows below a directory where they were
rename_file_not_recursive(d, inode, new_parent_id, new_name, new_path) ==
    IF get_file(d, inode) = NULL THEN [ok |-> TRUE, db |-> d]
    ELSE LET d1 == [d EXCEPT !.files[inode].parent_id = new_parent_id,
                             !.files[inode].name = new_name,
                             !.files[inode].path = new_path]
         IN IF unique_path_violation(d1.files)
            THEN [ok |-> FALSE, db |-> d]
            ELSE [ok |-> TRUE, db |-> d1]

\* [ok, db]: the two UPDATEs and the commit; a UNIQUE(path) violation aborts
\* its statement and raises IntegrityError before the commit (the first UPDATE
\* then stays in the connection's open transaction)
rename_file(d, inode, new_parent_id, new_name, new_path) ==
    IF get_file(d, inode) = NULL THEN [ok |-> TRUE, db |-> d]
    ELSE
    LET old_path == d.files[inode].path
        d1 == [d EXCEPT !.files[inode].parent_id = new_parent_id,
                        !.files[inode].name = new_name,
                        !.files[inode].path = new_path]
        below == old_path \o <<Slash, "%">>
        d2 == [d1 EXCEPT !.files =
                 [i \in DOMAIN d1.files |->
                    IF like(below, d1.files[i].path)
                    THEN [d1.files[i] EXCEPT !.path =
                            new_path \o substr(d1.files[i].path,
                                               Len(old_path) + 1)]
                    ELSE d1.files[i]]]
    IN IF unique_path_violation(d1.files)
       THEN [ok |-> FALSE, db |-> d]
       ELSE IF ~d.files[inode].is_dir
       THEN [ok |-> TRUE, db |-> d1]
       ELSE IF unique_path_violation(d2.files)
       THEN [ok |-> FALSE, db |-> d1]
       ELSE [ok |-> TRUE, db |-> d2]

\* an upsert that leaves ref_count alone on a conflict
upsert_object_no_increment(objs, object_hash, size_bytes) ==
    IF \E i \in DOMAIN objs : objs[i].hash = object_hash
    THEN objs
    ELSE Append(objs, [hash |-> object_hash, size_bytes |-> size_bytes,
                       ref_count |-> 1])

upsert_object_without_size(objs, object_hash, size_bytes) ==
    IF \E i \in DOMAIN objs : objs[i].hash = object_hash
    THEN [i \in DOMAIN objs |->
            IF objs[i].hash = object_hash
            THEN [objs[i] EXCEPT !.ref_count = @ + 1]
            ELSE objs[i]]
    ELSE Append(objs, [hash |-> object_hash, size_bytes |-> 0,
                       ref_count |-> 1])

\* INSERT ... ON CONFLICT(hash) DO UPDATE SET ref_count = ref_count + 1
upsert_object(objs, object_hash, size_bytes) ==
    IF \E i \in DOMAIN objs : objs[i].hash = object_hash
    THEN [i \in DOMAIN objs |->
            IF objs[i].hash = object_hash
            THEN [objs[i] EXCEPT !.ref_count = @ + 1]
            ELSE objs[i]]
    ELSE Append(objs, [hash |-> object_hash, size_bytes |-> size_bytes,
                       ref_count |-> 1])

create_version(d, file_id, object_hash, size_bytes, action) ==
    LET version_id == d.sqlite_sequence.versions + 1
        row == [id |-> version_id, file_id |-> file_id,
                object_hash |-> object_hash, size_bytes |-> size_bytes,
                created_at |-> now]
        d1 == [d EXCEPT !.objects = upsert_object(@, object_hash, size_bytes),
                        !.versions = @ \cup {row},
                        !.sqlite_sequence.versions = version_id,
                        !.files[file_id].current_version_id = version_id]
        path == IF get_file(d1, file_id) # NULL
                THEN d1.files[file_id].path ELSE NoPath
    IN record_event(d1, action, path, version_id, object_hash)

\* the current version's row of a live file, as a set of at most one row
get_current_version(d, inode) ==
    {v \in d.versions :
        /\ inode \in DOMAIN d.files
        /\ d.files[inode].current_version_id = v.id
        /\ ~d.files[inode].is_deleted}

get_version(d, version_id) == {v \in d.versions : v.id = version_id}

\* every ordering of the rows of S that is ascending in created_at: the query
\* says ORDER BY created_at ASC and nothing about rows of the same second
OrderingsByCreatedAt(S) ==
    {s \in [1..Cardinality(S) -> S] :
        /\ \A i, j \in DOMAIN s : i # j => s[i] # s[j]
        /\ \A i, j \in DOMAIN s : i < j => s[i].created_at <= s[j].created_at}

\* the lists the query of list_versions may return
list_versions(d, file_id) ==
    OrderingsByCreatedAt({v \in d.versions : v.file_id = file_id})

\* v comes after w in ORDER BY created_at DESC, id DESC
RankedAfter(v, w) ==
    \/ w.created_at > v.created_at
    \/ w.created_at = v.created_at /\ w.id > v.id

\* created_at <= ? ORDER BY created_at DESC, id DESC LIMIT 1, as a set of at
\* most one row
get_latest_version_before(d, file_id, before) ==
    LET cand == {v \in d.versions : v.file_id = file_id /\ v.created_at <= before}
    IN {v \in cand : \A w \in cand : w = v \/ RankedAfter(w, v)}

\* ROW_NUMBER() OVER (PARTITION BY file_id ORDER BY created_at DESC, id DESC)
row_number(d, v) ==
    1 + Cardinality({w \in d.versions : w.file_id = v.file_id /\ RankedAfter(v, w)})

list_prunable_versions(d, keep_last) ==
    {v \in d.versions : row_number(d, v) > keep_last}

\* a cutoff query without the guard on current versions
list_prunable_versions_before_unguarded(d, before) ==
    {v \in d.versions : v.created_at < before}

list_prunable_versions_before(d, before) ==
    {v \in d.versions :
        /\ v.created_at < before
        /\ ~\E i \in DOMAIN d.files : d.files[i].current_version_id = v.id}

\* snapshot_entries.version_id REFERENCES versions(id), foreign_keys=ON:
\* DELETE FROM versions raises IntegrityError for a row an entry points to
delete_version_fk_violation(d, rows) ==
    \E e \in d.snapshot_entries : \E r \in rows : e.version_id = r.id

\* the loop of prune_versions_*: DELETE the row, ref_count - 1 on its object
delete_versions(d, rows) ==
    LET objs == d.objects
    IN [d EXCEPT
         !.versions = @ \ rows,
         !.objects = [i \in DOMAIN objs |->
            [objs[i] EXCEPT !.ref_count =
                @ - Cardinality({r \in rows : r.object_hash = objs[i].hash})]]]

\* [ok, db, rows]: ok is FALSE when a DELETE raised
prune_versions_keep_last(d, keep_last) ==
    LET rows == list_prunable_versions(d, keep_last)
    IN IF delete_version_fk_violation(d, rows)
       THEN [ok |-> FALSE, db |-> d, rows |-> rows]
       ELSE [ok |-> TRUE, db |-> delete_versions(d, rows), rows |-> rows]

prune_versions_before(d, before) ==
    LET rows == list_prunable_versions_before(d, before)
    IN IF delete_version_fk_violation(d, rows)
       THEN [ok |-> FALSE, db |-> d, rows |-> rows]
       ELSE [ok |-> TRUE, db |-> delete_versions(d, rows), rows |-> rows]

\* ------------------------------------------------------------ objects
get_object(d, obj_hash) == {o \in Range(d.objects) : o.hash = obj_hash}

\* the rows with ref_count <= 0, in rowid order
RECURSIVE get_orphaned_objects(_)
get_orphaned_objects(objs) ==
    IF objs = <<>> THEN <<>>
    ELSE IF Head(objs).ref_count <= 0
         THEN <<Head(objs)>> \o get_orphaned_objects(Tail(objs))
         ELSE get_orphaned_objects(Tail(objs))

\* a database without foreign keys: no DELETE FROM objects is refused
delete_object_without_fk(d, obj_hash) == FALSE

\* versions.object_hash REFERENCES objects(hash): DELETE FROM objects raises
\* IntegrityError while a version row names the hash
delete_object_fk_violation(d, obj_hash) ==
    \E v \in d.versions : v.object_hash = obj_hash

\* UPDATE objects SET ref_count = ref_count - 1 WHERE hash = ?
decrement_ref_count(d, obj_hash) ==
    LET objs == d.objects
    IN [d EXCEPT !.objects =
          [i \in DOMAIN objs |->
             IF objs[i].hash = obj_hash
             THEN [objs[i] EXCEPT !.ref_count = @ - 1]
             ELSE objs[i]]]

RECURSIVE without_hash(_, _)
without_hash(objs, obj_hash) ==
    IF objs = <<>> THEN <<>>
    ELSE IF Head(objs).hash = obj_hash
         THEN without_hash(Tail(objs), obj_hash)
         ELSE <<Head(objs)>> \o without_hash(Tail(objs), obj_hash)

delete_object_record(d, obj_hash) ==
    [d EXCEPT !.objects = without_hash(@, obj_hash)]

\* ------------------------------------------------------------ snapshots
get_snapshot_by_name(d, name) == {s \in d.snapshots : s.name = name}

get_snapshot_entries(d, snapshot_id) ==
    {e \in d.snapshot_entries : e.snapshot_id = snapshot_id}

\* UNIQUE(name): the INSERT raises IntegrityError on an existing name
create_snapshot_conflict(d, name) == get_snapshot_by_name(d, name) # {}

\* a snapshot that also captures the soft-deleted files
create_snapshot_with_deleted(d, name) ==
    LET snapshot_id == d.sqlite_sequence.snapshots + 1
    IN [d EXCEPT
         !.snapshots = @ \cup {[id |-> snapshot_id, name |-> name]},
         !.sqlite_sequence.snapshots = snapshot_id,
         !.snapshot_entries = @ \cup
            {[snapshot_id |-> snapshot_id, file_id |-> i,
              version_id |-> d.files[i].current_version_id] :
                i \in {j \in DOMAIN d.files :
                          /\ ~d.files[j].is_dir
                          /\ d.files[j].current_version_id # NULL}}]

create_snapshot(d, name) ==
    LET snapshot_id == d.sqlite_sequence.snapshots + 1
    IN [d EXCEPT
         !.snapshots = @ \cup {[id |-> snapshot_id, name |-> name]},
         !.sqlite_sequence.snapshots = snapshot_id,
         !.snapshot_entries = @ \cup
            {[snapshot_id |-> snapshot_id, file_id |-> i,
              version_id |-> d.files[i].current_version_id] :
                i \in {j \in DOMAIN d.files :
                          /\ ~d.files[j].is_deleted
                          /\ ~d.files[j].is_dir
                          /\ d.files[j].current_version_id # NULL}}]

\* a delete whose first statement has no WHERE clause
delete_snapshot_every_entry(d, snapshot_id) ==
    [d EXCEPT
       !.snapshot_entries = {},
       !.snapshots = {s \in @ : s.id # snapshot_id}]

delete_snapshot(d, snapshot_id) ==
    [d EXCEPT
       !.snapshot_entries = {e \in @ : e.snapshot_id # snapshot_id},
       !.snapshots = {s \in @ : s.id # snapshot_id}]

\* a listing that takes directories for files
list_active_file_ids_with_dirs(d) ==
    {i \in DOMAIN d.files : ~d.files[i].is_deleted}

list_active_file_ids(d) ==
    {i \in DOMAIN d.files : ~d.files[i].is_deleted /\ ~d.files[i].is_dir}

\* ------------------------------------------------------------ FUSE adapter
None == <<>>
Some(x) == <<x>>
EmptyMap == [x \in {} |-> NULL]

\* what a handler of the adapter hands back to the kernel: the handlers are
\* not told apart in the result, only their outcome
FsOk(op) == [op |-> "fuse", status |-> "ok"]
FsError(op, errno) == [op |-> "fuse", status |-> "error", error |-> errno]

full_path(parent_path, name_str) ==
    IF parent_path = <<Slash>>
    THEN <<Slash>> \o name_str
    ELSE parent_path \o <<Slash>> \o name_str

\* [hash, size, hash_cache, size_cache]: the lookup fills the caches
get_current_hash_and_size(d, inode, hash_cache, size_cache) ==
    IF inode \in DOMAIN hash_cache
    THEN [hash |-> hash_cache[inode], size |-> size_cache[inode],
          hash_cache |-> hash_cache, size_cache |-> size_cache]
    ELSE LET version == get_current_version(d, inode)
         IN IF version = {}
            THEN [hash |-> EMPTY_HASH, size |-> 0,
                  hash_cache |-> hash_cache, size_cache |-> size_cache]
            ELSE LET v == CHOOSE x \in version : TRUE
                 IN [hash |-> v.object_hash, size |-> v.size_bytes,
                     hash_cache |-> Put(hash_cache, inode, v.object_hash),
                     size_cache |-> Put(size_cache, inode, v.size_bytes)]

\* data.extend(zeros up to end); data[offset:end] = buf
splice(data, offset, buf) ==
    LET end == offset + Len(buf)
        ext == IF end > Len(data)
               THEN data \o [i \in 1..(end - Len(data)) |-> 0]
               ELSE data
    IN [i \in 1..Len(ext) |->
          IF i > offset /\ i <= end THEN buf[i - offset] ELSE ext[i]]

create(parent_inode, name_str) ==
    LET d == Db
        parent == get_file(d, parent_inode)
    IN IF parent = NULL
       THEN /\ result' = FsError("create", "ENOENT")
            /\ UNCHANGED <<dbVars, fsVars, blobs, now>>
       ELSE LET path == full_path(d.files[parent].path, name_str)
            IN IF create_file_conflict(d, path)
               THEN /\ result' = FsError("create", "IntegrityError")
                    /\ UNCHANGED <<dbVars, fsVars, blobs, now>>
               ELSE LET d1 == create_file(d, parent_inode, name_str, path, FALSE)
                        inode == Len(d1.files)
                        d2 == create_version(d1, inode, EMPTY_HASH, 0, "WRITE")
                        fh == next_fh
                    IN /\ fh <= MaxFh
                       /\ WithinBounds(d2)
                       /\ commit(d2)
                       /\ blobs' = store_sync(blobs, <<>>)
                       /\ write_buffers' = Put(write_buffers, inode, <<>>)
                       /\ file_handles' = Put(file_handles, fh,
                                              [inode |-> inode, dirty |-> TRUE])
                       /\ next_fh' = fh + 1
                       /\ result' = FsOk("create")
                       /\ UNCHANGED <<inode_hash_cache, inode_size_cache, now>>

open(inode) ==
    LET row == get_file(Db, inode)
    IN IF row = NULL
       THEN /\ result' = FsError("open", "ENOENT")
            /\ UNCHANGED <<dbVars, fsVars, blobs, now>>
       ELSE IF files[row].is_dir
       THEN /\ result' = FsError("open", "EISDIR")
            /\ UNCHANGED <<dbVars, fsVars, blobs, now>>
       ELSE /\ next_fh <= MaxFh
            /\ file_handles' = Put(file_handles, next_fh,
                                   [inode |-> inode, dirty |-> FALSE])
            /\ next_fh' = next_fh + 1
            /\ result' = FsOk("open")
            /\ UNCHANGED <<dbVars, blobs, now, write_buffers,
                           inode_hash_cache, inode_size_cache>>

\* data[offset:offset + length]
slice(data, offset, length) ==
    SubSeq(data, offset + 1,
           IF offset + length < Len(data) THEN offset + length ELSE Len(data))

\* [data, hash_cache, size_cache]: what read sees for the inode and the caches
\* it leaves; data is None when read_sync raises FileNotFoundError
read_inode(d, b, inode, buffers, hash_cache, size_cache, offset, length) ==
    IF inode \in DOMAIN buffers
    THEN [data |-> Some(slice(buffers[inode], offset, length)),
          hash_cache |-> hash_cache, size_cache |-> size_cache]
    ELSE LET cur == get_current_hash_and_size(d, inode, hash_cache, size_cache)
         IN [data |-> IF exists(b, cur.hash)
                      THEN Some(slice(read_sync(b, cur.hash), offset, length))
                      ELSE None,
             hash_cache |-> cur.hash_cache, size_cache |-> cur.size_cache]

read(fh, offset, length) ==
    LET r == read_inode(Db, blobs, file_handles[fh].inode, write_buffers,
                        inode_hash_cache, inode_size_cache, offset, length)
    IN /\ inode_hash_cache' = r.hash_cache
       /\ inode_size_cache' = r.size_cache
       /\ result' = IF r.data = None
                    THEN FsError("read", "FileNotFoundError")
                    ELSE [op |-> "fuse", status |-> "ok", data |-> r.data[1]]
       /\ UNCHANGED <<dbVars, blobs, now, write_buffers, file_handles, next_fh>>

write(fh, offset, buf) ==
    LET inode == file_handles[fh].inode
        cur == get_current_hash_and_size(Db, inode, inode_hash_cache,
                                         inode_size_cache)
        loaded == inode \in DOMAIN write_buffers
    IN IF ~loaded /\ ~exists(blobs, cur.hash)
       THEN \* read_sync raises FileNotFoundError
            /\ inode_hash_cache' = cur.hash_cache
            /\ inode_size_cache' = cur.size_cache
            /\ result' = FsError("write", "FileNotFoundError")
            /\ UNCHANGED <<dbVars, blobs, now, write_buffers, file_handles,
                           next_fh>>
       ELSE LET data == IF loaded THEN write_buffers[inode]
                        ELSE read_sync(blobs, cur.hash)
            IN /\ write_buffers' = Put(write_buffers, inode,
                                       splice(data, offset, buf))
               /\ file_handles' = [file_handles EXCEPT ![fh].dirty = TRUE]
               /\ inode_hash_cache' =
                    IF loaded THEN inode_hash_cache ELSE cur.hash_cache
               /\ inode_size_cache' =
                    IF loaded THEN inode_size_cache ELSE cur.size_cache
               /\ result' = FsOk("write")
               /\ UNCHANGED <<dbVars, blobs, now, next_fh>>

\* [db, blobs, write_buffers, hash_cache, size_cache] after the flush
flush_inode_sync(d, inode) ==
    IF inode \notin DOMAIN write_buffers
    THEN [db |-> d, blobs |-> blobs, write_buffers |-> write_buffers,
          hash_cache |-> inode_hash_cache, size_cache |-> inode_size_cache]
    ELSE LET new_data == write_buffers[inode]
             obj_hash == compute_hash(new_data)
         IN [db |-> create_version(d, inode, obj_hash, Len(new_data), "WRITE"),
             blobs |-> store_sync(blobs, new_data),
             write_buffers |-> Pop(write_buffers, inode),
             hash_cache |-> Put(inode_hash_cache, inode, obj_hash),
             size_cache |-> Put(inode_size_cache, inode, Len(new_data))]

flush(fh) ==
    IF file_handles[fh].dirty
    THEN LET f == flush_inode_sync(Db, file_handles[fh].inode)
         IN /\ WithinBounds(f.db)
            /\ commit(f.db)
            /\ blobs' = f.blobs
            /\ write_buffers' = f.write_buffers
            /\ inode_hash_cache' = f.hash_cache
            /\ inode_size_cache' = f.size_cache
            /\ file_handles' = [file_handles EXCEPT ![fh].dirty = FALSE]
            /\ result' = FsOk("flush")
            /\ UNCHANGED <<now, next_fh>>
    ELSE /\ result' = FsOk("flush")
         /\ UNCHANGED <<dbVars, fsVars, blobs, now>>

release(fh) ==
    LET inode == file_handles[fh].inode
        f == IF file_handles[fh].dirty
             THEN flush_inode_sync(Db, inode)
             ELSE [db |-> Db, blobs |-> blobs, write_buffers |-> write_buffers,
                   hash_cache |-> inode_hash_cache,
                   size_cache |-> inode_size_cache]
        handles == Pop(file_handles, fh)
        still_open == \E h \in DOMAIN handles : handles[h].inode = inode
    IN /\ WithinBounds(f.db)
       /\ commit(f.db)
       /\ blobs' = f.blobs
       /\ file_handles' = handles
       /\ write_buffers' = IF still_open THEN f.write_buffers
                           ELSE Pop(f.write_buffers, inode)
       /\ inode_hash_cache' = f.hash_cache
       /\ inode_size_cache' = f.size_cache
       /\ result' = FsOk("release")
       /\ UNCHANGED <<now, next_fh>>

unlink(parent_inode, name_str) ==
    LET row == lookup(Db, parent_inode, name_str)
    IN IF row = {}
       THEN /\ result' = FsError("unlink", "ENOENT")
            /\ UNCHANGED <<dbVars, fsVars, blobs, now>>
       ELSE LET inode == CHOOSE i \in row : TRUE
            IN IF files[inode].is_dir
               THEN /\ result' = FsError("unlink", "EISDIR")
                    /\ UNCHANGED <<dbVars, fsVars, blobs, now>>
               ELSE /\ commit(soft_delete_file(Db, inode, "DELETE"))
                    /\ inode_hash_cache' = Pop(inode_hash_cache, inode)
                    /\ inode_size_cache' = Pop(inode_size_cache, inode)
                    /\ result' = FsOk("unlink")
                    /\ UNCHANGED <<blobs, now, write_buffers, file_handles,
                                   next_fh>>

mkdir(parent_inode, name_str) ==
    LET d == Db
        parent == get_file(d, parent_inode)
    IN IF parent = NULL
       THEN /\ result' = FsError("mkdir", "ENOENT")
            /\ UNCHANGED <<dbVars, fsVars, blobs, now>>
       ELSE LET path == full_path(d.files[parent].path, name_str)
            IN IF create_file_conflict(d, path)
               THEN /\ result' = FsError("mkdir", "IntegrityError")
                    /\ UNCHANGED <<dbVars, fsVars, blobs, now>>
               ELSE LET d1 == create_file(d, parent_inode, name_str, path, TRUE)
                    IN /\ WithinBounds(d1)
                       /\ commit(d1)
                       /\ result' = FsOk("mkdir")
                       /\ UNCHANGED <<fsVars, blobs, now>>

\* a rmdir that does not look for children
rmdir_unguarded(parent_inode, name_str) ==
    LET row == lookup(Db, parent_inode, name_str)
    IN IF row = {}
       THEN /\ result' = FsError("rmdir", "ENOENT")
            /\ UNCHANGED <<dbVars, fsVars, blobs, now>>
       ELSE LET inode == CHOOSE i \in row : TRUE
                d1 == soft_delete_file(Db, inode, "DELETE")
            IN /\ WithinBounds(d1)
               /\ commit(d1)
               /\ result' = FsOk("rmdir")
               /\ UNCHANGED <<fsVars, blobs, now>>

rmdir(parent_inode, name_str) ==
    LET row == lookup(Db, parent_inode, name_str)
    IN IF row = {}
       THEN /\ result' = FsError("rmdir", "ENOENT")
            /\ UNCHANGED <<dbVars, fsVars, blobs, now>>
       ELSE LET inode == CHOOSE i \in row : TRUE
            IN IF ~files[inode].is_dir
               THEN /\ result' = FsError("rmdir", "ENOTDIR")
                    /\ UNCHANGED <<dbVars, fsVars, blobs, now>>
               ELSE IF list_children(Db, inode) # {}
               THEN /\ result' = FsError("rmdir", "ENOTEMPTY")
                    /\ UNCHANGED <<dbVars, fsVars, blobs, now>>
               ELSE LET d1 == soft_delete_file(Db, inode, "DELETE")
                    IN /\ WithinBounds(d1)
                       /\ commit(d1)
                       /\ result' = FsOk("rmdir")
                       /\ UNCHANGED <<fsVars, blobs, now>>

\* the destination is soft-deleted and committed by soft_delete_file before
\* rename_file runs; an IntegrityError of rename_file leaves that in place
rename(old_parent_inode, old_name_str, new_parent_inode, new_name_str) ==
    LET src_row == lookup(Db, old_parent_inode, old_name_str)
        new_parent == get_file(Db, new_parent_inode)
    IN IF src_row = {} \/ new_parent = NULL
       THEN /\ result' = FsError("rename", "ENOENT")
            /\ UNCHANGED <<dbVars, fsVars, blobs, now>>
       ELSE
       LET src == CHOOSE i \in src_row : TRUE
           new_path == full_path(files[new_parent].path, new_name_str)
           dst_row == lookup(Db, new_parent_inode, new_name_str)
           dst == IF dst_row = {} THEN NULL ELSE CHOOSE i \in dst_row : TRUE
       IN IF /\ dst # NULL
             /\ files[dst].is_dir
             /\ list_children(Db, dst) # {}
          THEN /\ result' = FsError("rename", "ENOTEMPTY")
               /\ UNCHANGED <<dbVars, fsVars, blobs, now>>
          ELSE
          LET d1 == IF dst # NULL
                    THEN soft_delete_file(Db, dst, "DELETE") ELSE Db
              hash_cache == IF dst # NULL
                            THEN Pop(inode_hash_cache, dst)
                            ELSE inode_hash_cache
              size_cache == IF dst # NULL
                            THEN Pop(inode_size_cache, dst)
                            ELSE inode_size_cache
              renamed == rename_file(d1, src, new_parent_inode, new_name_str,
                                     new_path)
          IN /\ WithinBounds(d1)
             /\ commit(renamed.db)
             /\ IF renamed.ok
                THEN /\ inode_hash_cache' = Pop(hash_cache, src)
                     /\ inode_size_cache' = Pop(size_cache, src)
                     /\ result' = FsOk("rename")
                ELSE /\ inode_hash_cache' = hash_cache
                     /\ inode_size_cache' = size_cache
                     /\ result' = FsError("rename", "IntegrityError")
             /\ UNCHANGED <<blobs, now, write_buffers, file_handles,
                            next_fh>>

\* a flush whose create_version raises (the database is locked by an
\* operator's transaction): the buffer was popped and the blob was stored
\* before, the handle stays dirty, no row is written
flush_create_version_raises(fh) ==
    LET inode == file_handles[fh].inode
    IN /\ file_handles[fh].dirty
       /\ inode \in DOMAIN write_buffers
       /\ blobs' = store_sync(blobs, write_buffers[inode])
       /\ write_buffers' = Pop(write_buffers, inode)
       /\ result' = FsError("flush", "OperationalError")
       /\ UNCHANGED <<dbVars, now, file_handles, next_fh, inode_hash_cache,
                      inode_size_cache>>

\* ObjectStore.store_sync and _write_object, one system call at a time, as
\* run by a thread t. The temporary file of a blob is <hash>.tmp, the same
\* path for every thread that stores the same content.
\* store_sync: compute_hash, obj_path.exists()
put_begin(t, data) ==
    /\ put_threads[t].pc \in {"idle", "returned", "raised"}
    /\ put_threads' = [put_threads EXCEPT ![t] =
          [pc |-> IF exists(blobs, compute_hash(data))
                  THEN "returned" ELSE "open",
           data |-> data, fd |-> NULL]]
    /\ UNCHANGED <<blobs, tmp_files, blob_inos, next_ino>>

\* open(tmp_path, "wb"): creates the file, or truncates the one that is there
put_open(t) ==
    LET h == compute_hash(put_threads[t].data)
    IN /\ put_threads[t].pc = "open"
       /\ IF h \in DOMAIN tmp_files
          THEN /\ tmp_files' = [tmp_files EXCEPT ![h].data = <<>>]
               /\ put_threads' = [put_threads EXCEPT
                     ![t].pc = "write", ![t].fd = tmp_files[h].ino]
               /\ UNCHANGED next_ino
          ELSE /\ next_ino <= MaxIno
               /\ tmp_files' = Put(tmp_files, h,
                                   [ino |-> next_ino, data |-> <<>>])
               /\ put_threads' = [put_threads EXCEPT
                     ![t].pc = "write", ![t].fd = next_ino]
               /\ next_ino' = next_ino + 1
       /\ UNCHANGED <<blobs, blob_inos>>

\* f.write(data); f.flush(); os.fsync(): the bytes go to the file that was
\* opened, whatever its name is by now
put_write(t) ==
    LET h == compute_hash(put_threads[t].data)
        fd == put_threads[t].fd
    IN /\ put_threads[t].pc = "write"
       /\ put_threads' = [put_threads EXCEPT ![t].pc = "rename"]
       /\ IF h \in DOMAIN tmp_files /\ tmp_files[h].ino = fd
          THEN /\ tmp_files' = [tmp_files EXCEPT
                     ![h].data = splice(@, 0, put_threads[t].data)]
               /\ UNCHANGED blobs
          ELSE IF /\ h \in DOMAIN blob_inos /\ blob_inos[h] = fd
                  /\ h \in DOMAIN blobs
          THEN /\ blobs' = [blobs EXCEPT
                     ![h] = splice(@, 0, put_threads[t].data)]
               /\ UNCHANGED tmp_files
          ELSE UNCHANGED <<blobs, tmp_files>>
       /\ UNCHANGED <<blob_inos, next_ino>>

\* tmp_path.rename(obj_path); FileNotFoundError when another thread has
\* renamed the temporary file away (tmp_path.unlink(missing_ok=True); raise)
put_rename(t) ==
    LET h == compute_hash(put_threads[t].data)
    IN /\ put_threads[t].pc = "rename"
       /\ IF h \in DOMAIN tmp_files
          THEN /\ blobs' = Put(blobs, h, tmp_files[h].data)
               /\ blob_inos' = Put(blob_inos, h, tmp_files[h].ino)
               /\ tmp_files' = Pop(tmp_files, h)
               /\ put_threads' = [put_threads EXCEPT ![t].pc = "returned"]
          ELSE /\ put_threads' = [put_threads EXCEPT ![t].pc = "raised"]
               /\ UNCHANGED <<blobs, blob_inos, tmp_files>>
       /\ UNCHANGED next_ino

\* setattr with fields.update_size only (truncate): the buffer is loaded if
\* absent, cut or zero-extended to new_size, every open handle on the inode
\* is marked dirty, and getattr answers with the size of the buffer
setattr(inode, new_size) ==
    LET loaded == inode \in DOMAIN write_buffers
        cur == get_current_hash_and_size(Db, inode, inode_hash_cache,
                                         inode_size_cache)
    IN IF ~loaded /\ ~exists(blobs, cur.hash)
       THEN /\ inode_hash_cache' = cur.hash_cache
            /\ inode_size_cache' = cur.size_cache
            /\ result' = FsError("setattr", "FileNotFoundError")
            /\ UNCHANGED <<dbVars, blobs, now, write_buffers, file_handles,
                           next_fh>>
       ELSE LET buf == IF loaded THEN write_buffers[inode]
                       ELSE read_sync(blobs, cur.hash)
                h1 == IF loaded THEN inode_hash_cache ELSE cur.hash_cache
                s1 == IF loaded THEN inode_size_cache ELSE cur.size_cache
                row == get_file(Db, inode)
                attr == get_current_hash_and_size(Db, inode, h1, s1)
                looked == row # NULL /\ files[inode].current_version_id # NULL
            IN /\ write_buffers' = Put(write_buffers, inode,
                     IF new_size < Len(buf)
                     THEN SubSeq(buf, 1, new_size)
                     ELSE buf \o [i \in 1..(new_size - Len(buf)) |-> 0])
               /\ file_handles' =
                     [fh \in DOMAIN file_handles |->
                        IF file_handles[fh].inode = inode
                        THEN [file_handles[fh] EXCEPT !.dirty = TRUE]
                        ELSE file_handles[fh]]
               /\ inode_hash_cache' = IF looked THEN attr.hash_cache ELSE h1
               /\ inode_size_cache' = IF looked THEN attr.size_cache ELSE s1
               /\ result' = IF row = NULL
                            THEN FsError("setattr", "ENOENT")
                            ELSE [op |-> "fuse", status |-> "ok",
                                  st_size |-> new_size]
               /\ UNCHANGED <<dbVars, blobs, now, next_fh>>

\* flush and _flush_inode_sync step by step. The event loop runs flush up to
\* its await; the worker thread pops the buffer under the inode lock, then
\* stores the blob, commits the version and updates the caches outside the
\* lock; the event loop, free to serve other requests meanwhile, resumes flush
\* at handle.dirty = False. A job is [fh, inode, data, pc].
flush_await(fh) ==
    LET inode == file_handles[fh].inode
    IN /\ ~\E j \in flush_jobs : j.fh = fh
       /\ IF ~file_handles[fh].dirty
          THEN /\ result' = FsOk("flush")
               /\ UNCHANGED <<write_buffers, flush_jobs>>
          ELSE IF inode \notin DOMAIN write_buffers
          THEN /\ flush_jobs' = flush_jobs \cup
                    {[fh |-> fh, inode |-> inode, data |-> <<>>,
                      pc |-> "return"]}
               /\ UNCHANGED <<write_buffers, result>>
          ELSE /\ flush_jobs' = flush_jobs \cup
                    {[fh |-> fh, inode |-> inode,
                      data |-> write_buffers[inode], pc |-> "store"]}
               /\ write_buffers' = Pop(write_buffers, inode)
               /\ UNCHANGED result
       /\ UNCHANGED <<dbVars, blobs, now, file_handles, next_fh,
                      inode_hash_cache, inode_size_cache>>

\* obj_hash = self.objects.store_sync(new_data)
flush_store_sync(j) ==
    /\ j.pc = "store"
    /\ blobs' = store_sync(blobs, j.data)
    /\ flush_jobs' = (flush_jobs \ {j}) \cup {[j EXCEPT !.pc = "commit"]}
    /\ UNCHANGED <<dbVars, fsVars, now, result>>

\* self.db.create_version(inode, obj_hash, len(new_data))
flush_create_version(j) ==
    LET d == create_version(Db, j.inode, compute_hash(j.data), Len(j.data),
                            "WRITE")
    IN /\ j.pc = "commit"
       /\ WithinBounds(d)
       /\ commit(d)
       /\ flush_jobs' = (flush_jobs \ {j}) \cup {[j EXCEPT !.pc = "cache"]}
       /\ UNCHANGED <<fsVars, blobs, now, result>>

\* self._inode_hash_cache[inode] = obj_hash; _inode_size_cache likewise
flush_update_cache(j) ==
    /\ j.pc = "cache"
    /\ inode_hash_cache' = Put(inode_hash_cache, j.inode, compute_hash(j.data))
    /\ inode_size_cache' = Put(inode_size_cache, j.inode, Len(j.data))
    /\ flush_jobs' = (flush_jobs \ {j}) \cup {[j EXCEPT !.pc = "return"]}
    /\ UNCHANGED <<dbVars, blobs, now, result, write_buffers, file_handles,
                   next_fh>>

\* back in the event loop: handle.dirty = False
flush_resume(j) ==
    /\ j.pc = "return"
    /\ file_handles' = [file_handles EXCEPT ![j.fh].dirty = FALSE]
    /\ flush_jobs' = flush_jobs \ {j}
    /\ result' = FsOk("flush")
    /\ UNCHANGED <<dbVars, blobs, now, write_buffers, next_fh,
                   inode_hash_cache, inode_size_cache>>

\* The connection of the mounted filesystem is one sqlite3.Connection, opened
\* with check_same_thread=False and used by the event loop and by every worker
\* thread. Its statements join the one transaction the connection has open,
\* whichever thread issues them, and a commit by any thread commits it all.
\* conn_tx is that transaction: None when nothing is pending, else the tables
\* as the connection sees them. The table variables are the committed tables,
\* which is what every other connection reads.
conn_view == IF conn_tx = None THEN Db ELSE conn_tx[1]

\* create_version in a worker thread, one statement of the connection at a
\* time: the upsert into objects, the INSERT into versions, the UPDATE of
\* files.current_version_id, the INSERT into events, the commit
create_version_step(j) ==
    LET d == conn_view
        object_hash == compute_hash(j.data)
    IN CASE j.pc = "commit" ->
              /\ conn_tx' = Some([d EXCEPT !.objects =
                                upsert_object(@, object_hash, Len(j.data))])
              /\ flush_jobs' = (flush_jobs \ {j}) \cup
                                {[j EXCEPT !.pc = "insert_version"]}
              /\ UNCHANGED dbVars
         [] j.pc = "insert_version" ->
              LET version_id == d.sqlite_sequence.versions + 1
                  row == [id |-> version_id, file_id |-> j.inode,
                          object_hash |-> object_hash,
                          size_bytes |-> Len(j.data), created_at |-> now]
                  d1 == [d EXCEPT !.versions = @ \cup {row},
                                  !.sqlite_sequence.versions = version_id]
              IN /\ WithinBounds(d1)
                 /\ conn_tx' = Some(d1)
                 /\ flush_jobs' = (flush_jobs \ {j}) \cup
                       {[fh |-> j.fh, inode |-> j.inode, data |-> j.data,
                         pc |-> "update_file", version_id |-> version_id]}
                 /\ UNCHANGED dbVars
         [] j.pc = "update_file" ->
              /\ conn_tx' = Some([d EXCEPT
                    !.files[j.inode].current_version_id = j.version_id])
              /\ flush_jobs' = (flush_jobs \ {j}) \cup
                                {[j EXCEPT !.pc = "record_event"]}
              /\ UNCHANGED dbVars
         [] j.pc = "record_event" ->
              LET path == IF get_file(d, j.inode) # NULL
                          THEN d.files[j.inode].path ELSE NoPath
                  d1 == record_event(d, "WRITE", path, j.version_id,
                                     object_hash)
              IN /\ WithinBounds(d1)
                 /\ conn_tx' = Some(d1)
                 /\ flush_jobs' = (flush_jobs \ {j}) \cup
                                   {[j EXCEPT !.pc = "commit_version"]}
                 /\ UNCHANGED dbVars
         [] j.pc = "commit_version" ->
              /\ commit(d)
              /\ conn_tx' = None
              /\ flush_jobs' = (flush_jobs \ {j}) \cup
                    {[fh |-> j.fh, inode |-> j.inode, data |-> j.data,
                      pc |-> "cache"]}
         [] OTHER -> FALSE

\* mkdir in the event loop while worker threads use the connection:
\* create_file is an INSERT into files and self.db.commit()
mkdir_shared(parent_inode, name_str) ==
    LET d == conn_view
        parent == get_file(d, parent_inode)
    IN IF parent = NULL
       THEN /\ result' = FsError("mkdir", "ENOENT")
            /\ UNCHANGED <<dbVars, conn_tx>>
       ELSE LET path == full_path(d.files[parent].path, name_str)
            IN IF create_file_conflict(d, path)
               THEN /\ result' = FsError("mkdir", "IntegrityError")
                    /\ UNCHANGED <<dbVars, conn_tx>>
               ELSE LET d1 == create_file(d, parent_inode, name_str, path, TRUE)
                    IN /\ WithinBounds(d1)
                       /\ commit(d1)
                       /\ conn_tx' = None
                       /\ result' = FsOk("mkdir")

\* ------------------------------------------------------------ operator commands
\* An injected failure: the call numbered `fail` of a handler raises (0: none),
\* as the tests do by patching a method to raise.
FailAt == {0, 1, 2}

\* typer.Exit(1) or an exception: the handler rolls back to d and exits 1
Exit1(d, b, op, error) ==
    [db |-> d, blobs |-> b,
     result |-> [op |-> op, status |-> "error", error |-> error]]

\* every ordering of the rows of the set S
Orderings(S) ==
    {s \in [1..Cardinality(S) -> S] : \A i, j \in DOMAIN s : i # j => s[i] # s[j]}

\* restore whose range test lets a version number above N through, as the
\* last version
restore_without_upper_bound(d, file_path, version, before, dry_run, versions_list, fail) ==
    IF (version = None) = (before = None)
    THEN Exit1(d, blobs, "restore", "AMBIGUOUS_SELECTOR")
    ELSE
    LET file_row == get_file_by_path(d, file_path, TRUE)
    IN IF file_row = NULL
       THEN Exit1(d, blobs, "restore", "NOT_FOUND")
       ELSE
       LET found ==
             IF version # None
             THEN IF version[1] < 1 \/ versions_list = <<>>
                  THEN {}
                  ELSE IF version[1] > Len(versions_list)
                  THEN {versions_list[Len(versions_list)]}
                  ELSE {versions_list[version[1]]}
             ELSE get_latest_version_before(d, file_row, before[1])
       IN IF found = {}
          THEN Exit1(d, blobs, "restore",
                     IF version # None THEN "OUT_OF_RANGE" ELSE "NOT_FOUND")
          ELSE
          LET target == CHOOSE v \in found : TRUE
              selected_version_number ==
                  CHOOSE idx \in DOMAIN versions_list :
                      versions_list[idx].id = target.id
              d1 == create_version(d, file_row, target.object_hash,
                                   target.size_bytes, "RESTORE")
              d2 == IF d.files[file_row].is_deleted
                    THEN set_file_deleted(d1, file_row, FALSE)
                    ELSE d1
          IN [db |-> IF dry_run THEN d ELSE d2,
              blobs |-> blobs,
              result |-> [op |-> "restore", status |-> "ok",
                          path |-> file_path,
                          restored_from_version |-> selected_version_number,
                          target_hash |-> target.object_hash,
                          target_size |-> target.size_bytes,
                          dry_run |-> dry_run]]

restore(d, file_path, version, before, dry_run, versions_list, fail) ==
    IF (version = None) = (before = None)
    THEN Exit1(d, blobs, "restore", "AMBIGUOUS_SELECTOR")
    ELSE
    LET file_row == get_file_by_path(d, file_path, TRUE)
    IN IF file_row = NULL
       THEN Exit1(d, blobs, "restore", "NOT_FOUND")
       ELSE
       LET found ==
             IF version # None
             THEN IF version[1] < 1 \/ version[1] > Len(versions_list)
                  THEN {}
                  ELSE {versions_list[version[1]]}
             ELSE get_latest_version_before(d, file_row, before[1])
       IN IF found = {}
          THEN Exit1(d, blobs, "restore",
                     IF version # None THEN "OUT_OF_RANGE" ELSE "NOT_FOUND")
          ELSE
          LET target == CHOOSE v \in found : TRUE
              selected_version_number ==
                  CHOOSE idx \in DOMAIN versions_list :
                      versions_list[idx].id = target.id
              d1 == create_version(d, file_row, target.object_hash,
                                   target.size_bytes, "RESTORE")
              d2 == IF d.files[file_row].is_deleted
                    THEN set_file_deleted(d1, file_row, FALSE)
                    ELSE d1
              raised == /\ ~dry_run
                        /\ \/ fail = 1
                           \/ fail = 2 /\ d.files[file_row].is_deleted
          IN IF raised
             THEN Exit1(d, blobs, "restore", "TRANSACTION_FAILED")
             ELSE [db |-> IF dry_run THEN d ELSE d2,
                   blobs |-> blobs,
                   result |-> [op |-> "restore", status |-> "ok",
                               path |-> file_path,
                               restored_from_version |-> selected_version_number,
                               target_hash |-> target.object_hash,
                               target_size |-> target.size_bytes,
                               dry_run |-> dry_run]]

RECURSIVE sum_size_bytes(_)
sum_size_bytes(rows) ==
    IF rows = {} THEN 0
    ELSE LET r == CHOOSE x \in rows : TRUE
         IN r.size_bytes + sum_size_bytes(rows \ {r})

\* the orphan loop of a real gc over orphans[i..]; st.failed: delete_sync raised
RECURSIVE collect_orphans(_, _, _, _)
collect_orphans(st, orphans, i, fail) ==
    IF i > Len(orphans) \/ st.failed THEN st
    ELSE
    LET obj_hash == orphans[i].hash
    IN IF delete_object_fk_violation(st.db, obj_hash)
       THEN collect_orphans([st EXCEPT !.skipped_referenced = @ + 1],
                            orphans, i + 1, fail)
       ELSE IF fail = i
       THEN [st EXCEPT !.failed = TRUE]
       ELSE LET del == delete_sync(st.blobs, obj_hash)
            IN collect_orphans(
                 [st EXCEPT !.db = delete_object_record(@, obj_hash),
                            !.blobs = del.blobs,
                            !.missing_on_disk =
                                IF del.freed = 0 THEN @ + 1 ELSE @,
                            !.reclaimed_bytes = @ + del.freed,
                            !.processed_objects = @ + 1],
                 orphans, i + 1, fail)

gc_command(d, keep_last, before, dry_run, fail) ==
    IF keep_last # None /\ before # None
    THEN Exit1(d, blobs, "gc", "AMBIGUOUS_SELECTOR")
    ELSE
    LET pruned ==
          IF before # None
          THEN IF dry_run
               THEN [ok |-> TRUE, db |-> d,
                     rows |-> list_prunable_versions_before(d, before[1])]
               ELSE prune_versions_before(d, before[1])
          ELSE IF keep_last # None
          THEN IF dry_run
               THEN [ok |-> TRUE, db |-> d,
                     rows |-> list_prunable_versions(d, keep_last[1])]
               ELSE prune_versions_keep_last(d, keep_last[1])
          ELSE [ok |-> TRUE, db |-> d, rows |-> {}]
    IN IF ~pruned.ok
       THEN Exit1(d, blobs, "gc", "IntegrityError")
       ELSE
       LET orphans == get_orphaned_objects(pruned.db.objects)
           report == [op |-> "gc", status |-> "ok", dry_run |-> dry_run,
                      keep_last |-> keep_last, before |-> before,
                      versions_pruned |-> Cardinality(pruned.rows),
                      orphaned_objects |-> Len(orphans),
                      processed_objects |-> 0, reclaimed_bytes |-> 0,
                      missing_on_disk |-> 0, skipped_referenced |-> 0]
       IN IF dry_run
          THEN
          LET projected_orphan_hashes ==
                {o.hash : o \in Range(orphans)} \cup
                {h \in {r.object_hash : r \in pruned.rows} :
                    \E o \in get_object(d, h) :
                       o.ref_count
                         - Cardinality({r \in pruned.rows : r.object_hash = h})
                         <= 0}
          IN [db |-> d, blobs |-> blobs,
              result |-> [report EXCEPT
                 !.processed_objects = Cardinality(projected_orphan_hashes),
                 !.reclaimed_bytes = sum_size_bytes(
                    {o \in Range(d.objects) : o.hash \in projected_orphan_hashes})]]
          ELSE
          LET st == collect_orphans(
                      [db |-> pruned.db, blobs |-> blobs, failed |-> FALSE,
                       processed_objects |-> 0, reclaimed_bytes |-> 0,
                       missing_on_disk |-> 0, skipped_referenced |-> 0],
                      orphans, 1, fail)
          IN IF st.failed
             THEN Exit1(d, st.blobs, "gc", "TRANSACTION_FAILED")
             ELSE [db |-> st.db, blobs |-> st.blobs,
                   result |-> [report EXCEPT
                      !.processed_objects = st.processed_objects,
                      !.reclaimed_bytes = st.reclaimed_bytes,
                      !.missing_on_disk = st.missing_on_disk,
                      !.skipped_referenced = st.skipped_referenced]]

snapshot_path(name) == <<"snapshot:", name>>

snapshot_create(d, name, fail) ==
    IF create_snapshot_conflict(d, name)
    THEN Exit1(d, blobs, "snapshot_create", "ALREADY_EXISTS")
    ELSE
    \* create_snapshot commits before the event is recorded
    LET d1 == create_snapshot(d, name)
    IN IF fail = 1
       THEN Exit1(d1, blobs, "snapshot_create", "TRANSACTION_FAILED")
       ELSE [db |-> record_event(d1, "SNAPSHOT_CREATE", snapshot_path(name),
                                 NULL, NoHash),
             blobs |-> blobs,
             result |-> [op |-> "snapshot_create", status |-> "ok",
                         name |-> name,
                         id |-> d1.sqlite_sequence.snapshots,
                         file_count |-> Cardinality(get_snapshot_entries(
                                          d1, d1.sqlite_sequence.snapshots))]]

snapshot_delete(d, name, fail) ==
    LET snapshot == get_snapshot_by_name(d, name)
    IN IF snapshot = {}
       THEN Exit1(d, blobs, "snapshot_delete", "NOT_FOUND")
       ELSE
       \* delete_snapshot commits before the event is recorded
       LET d1 == delete_snapshot(d, (CHOOSE x \in snapshot : TRUE).id)
       IN IF fail = 1
          THEN Exit1(d1, blobs, "snapshot_delete", "TRANSACTION_FAILED")
          ELSE [db |-> record_event(d1, "SNAPSHOT_DELETE", snapshot_path(name),
                                    NULL, NoHash),
                blobs |-> blobs,
                result |-> [op |-> "snapshot_delete", status |-> "ok",
                            name |-> name]]

\* for file_id in file_ids_to_delete (sorted): soft_delete_file(commit=False)
RECURSIVE soft_delete_files(_, _)
soft_delete_files(d, file_ids) ==
    IF file_ids = {} THEN d
    ELSE LET file_id == CHOOSE i \in file_ids : \A j \in file_ids : i <= j
         IN soft_delete_files(soft_delete_file(d, file_id, "DELETE"),
                              file_ids \ {file_id})

\* the entry loop of snapshot_restore over entries[i..]; st.failed: a call raised
RECURSIVE restore_entries(_, _, _, _)
restore_entries(st, entries, i, fail) ==
    IF i > Len(entries) \/ st.failed THEN st
    ELSE
    LET entry == entries[i]
        version == get_version(st.db, entry.version_id)
    IN IF version = {}
       THEN restore_entries([st EXCEPT !.skipped_missing_versions = @ + 1],
                            entries, i + 1, fail)
       ELSE IF fail = i
       THEN [st EXCEPT !.failed = TRUE]
       ELSE LET v == CHOOSE x \in version : TRUE
                d1 == create_version(st.db, entry.file_id, v.object_hash,
                                     v.size_bytes, "SNAPSHOT_RESTORE")
            IN restore_entries(
                 [st EXCEPT !.db = set_file_deleted(d1, entry.file_id, FALSE),
                            !.files_restored = @ + 1],
                 entries, i + 1, fail)

snapshot_restore(d, name, keep_new, dry_run, entries, fail) ==
    LET snapshot == get_snapshot_by_name(d, name)
    IN IF snapshot = {}
       THEN Exit1(d, blobs, "snapshot_restore", "NOT_FOUND")
       ELSE
       LET snapshot_file_ids == {e.file_id : e \in Range(entries)}
           active_file_ids == list_active_file_ids(d)
           file_ids_to_delete ==
               IF keep_new THEN {} ELSE active_file_ids \ snapshot_file_ids
           report == [op |-> "snapshot_restore", status |-> "ok",
                      snapshot |-> name, dry_run |-> dry_run,
                      keep_new |-> keep_new,
                      files_in_snapshot |-> Len(entries),
                      files_restored |-> Len(entries),
                      files_soft_deleted |-> Cardinality(file_ids_to_delete),
                      skipped_missing_versions |-> 0]
       IN IF dry_run
          THEN [db |-> d, blobs |-> blobs, result |-> report]
          ELSE
          LET st == restore_entries(
                      [db |-> soft_delete_files(d, file_ids_to_delete),
                       files_restored |-> 0, skipped_missing_versions |-> 0,
                       failed |-> FALSE],
                      entries, 1, fail)
          IN IF st.failed
             THEN Exit1(d, blobs, "snapshot_restore", "TRANSACTION_FAILED")
             ELSE [db |-> record_event(st.db, "SNAPSHOT_RESTORE",
                                       snapshot_path(name), NULL, NoHash),
                   blobs |-> blobs,
                   result |-> [report EXCEPT
                      !.files_restored = st.files_restored,
                      !.skipped_missing_versions = st.skipped_missing_versions]]

\* ------------------------------------------------------------ actions
\* the state after a command: its committed database, the store, its exit
\* the two sizes of `cowfs stats`: SUM(size_bytes) over objects and over versions
get_stats(d) ==
    [actual_size_bytes |-> sum_size_bytes(Range(d.objects)),
     logical_size_bytes |-> sum_size_bytes(d.versions)]

Run(out) ==
    /\ WithinBounds(out.db)
    /\ commit(out.db)
    /\ blobs' = out.blobs
    /\ result' = out.result
    /\ UNCHANGED <<fsVars, now, threadVars>>

\* restore's selectors: --version k, --before t; and the refused shapes
VersionSelectors ==
    {[version |-> Some(k), before |-> None] : k \in 1..MaxVersionId}
BeforeSelectors ==
    {[version |-> None, before |-> Some(t)] : t \in 0..MaxTime}
RefusedSelectors ==
    {[version |-> None, before |-> None],
     [version |-> Some(1), before |-> Some(0)],
     [version |-> Some(0), before |-> None]}

\* gc's policies: none, --keep-last k (typer: min=1), --before t
NoPolicy == [keep_last |-> None, before |-> None]
KeepLast(k) == [keep_last |-> Some(k), before |-> None]
Before(t) == [keep_last |-> None, before |-> Some(t)]
KeepLastValues == {1, 2}
Policies ==
    {NoPolicy} \cup {KeepLast(k) : k \in KeepLastValues}
               \cup {Before(t) : t \in 0..(MaxTime + 1)}
RefusedPolicies == {[keep_last |-> Some(1), before |-> Some(0)]}

\* restore that hands dry_run to its report only
Restore_ignoring_dry_run(names, selectors, dry_runs, fails) ==
    \E n \in names, sel \in selectors, dry_run \in dry_runs, fail \in fails :
       LET file_path == <<Slash>> \o n
           file_row == get_file_by_path(Db, file_path, TRUE)
       IN \E versions_list \in
               (IF file_row = NULL THEN {<<>>} ELSE list_versions(Db, file_row)) :
             LET out == restore(Db, file_path, sel.version, sel.before, FALSE,
                                versions_list, fail)
             IN Run([out EXCEPT !.result =
                        IF out.result.status = "ok"
                        THEN [out.result EXCEPT !.dry_run = dry_run]
                        ELSE out.result])

\* the inputs of a specification are drawn from the sets it passes
Restore(names, selectors, dry_runs, fails) ==
    \E n \in names, sel \in selectors, dry_run \in dry_runs, fail \in fails :
       LET file_path == <<Slash>> \o n
           file_row == get_file_by_path(Db, file_path, TRUE)
       IN \E versions_list \in
               (IF file_row = NULL THEN {<<>>} ELSE list_versions(Db, file_row)) :
             Run(restore(Db, file_path, sel.version, sel.before, dry_run,
                         versions_list, fail))

Gc(policies, dry_runs, fails) ==
    \E policy \in policies, dry_run \in dry_runs, fail \in fails :
       Run(gc_command(Db, policy.keep_last, policy.before, dry_run, fail))

SnapshotCreate(names, fails) ==
    \E name \in names, fail \in fails :
       Run(snapshot_create(Db, name, fail))

SnapshotDelete(names, fails) ==
    \E name \in names, fail \in fails :
       Run(snapshot_delete(Db, name, fail))

SnapshotRestore(names, keep_news, dry_runs, fails) ==
    \E name \in names, keep_new \in keep_news, dry_run \in dry_runs,
       fail \in fails :
       LET snapshot == get_snapshot_by_name(Db, name)
           rows == IF snapshot = {} THEN {}
                   ELSE get_snapshot_entries(
                          Db, (CHOOSE x \in snapshot : TRUE).id)
       IN \E entries \in Orderings(rows) :
             Run(snapshot_restore(Db, name, keep_new, dry_run, entries, fail))

Create(names) ==
    \E parent_inode \in {i \in DOMAIN files : files[i].is_dir},
       name_str \in names :
       /\ create(parent_inode, name_str)
       /\ UNCHANGED threadVars

Open ==
    \E inode \in DOMAIN files :
       /\ open(inode)
       /\ UNCHANGED threadVars

Read ==
    \E fh \in DOMAIN file_handles :
       /\ read(fh, 0, MaxReadLength)
       /\ UNCHANGED threadVars

Write(bufs) ==
    \E fh \in DOMAIN file_handles, offset \in WriteOffsets, buf \in bufs :
       /\ write(fh, offset, buf)
       /\ UNCHANGED threadVars

Flush ==
    \E fh \in DOMAIN file_handles :
       /\ flush(fh)
       /\ UNCHANGED threadVars

FlushRaises ==
    \E fh \in DOMAIN file_handles :
       /\ flush_create_version_raises(fh)
       /\ UNCHANGED threadVars

Release ==
    \E fh \in DOMAIN file_handles :
       /\ release(fh)
       /\ UNCHANGED threadVars

Unlink(names) ==
    \E parent_inode \in {i \in DOMAIN files : files[i].is_dir},
       name_str \in names :
       /\ unlink(parent_inode, name_str)
       /\ UNCHANGED threadVars

Mkdir(names) ==
    \E parent_inode \in {i \in DOMAIN files : files[i].is_dir},
       name_str \in names :
       /\ mkdir(parent_inode, name_str)
       /\ UNCHANGED threadVars

Rmdir(names) ==
    \E parent_inode \in {i \in DOMAIN files : files[i].is_dir},
       name_str \in names :
       /\ rmdir(parent_inode, name_str)
       /\ UNCHANGED threadVars

\* i is inode or lies below it
RECURSIVE below_or_self(_, _)
below_or_self(i, inode) ==
    \/ i = inode
    \/ (files[i].parent_id # i /\ below_or_self(files[i].parent_id, inode))

\* what the kernel settles before it calls rename: source and destination
\* differ, a directory is not moved below itself, and an existing destination
\* is of the source's kind and does not contain the source
vfs_rename(old_parent_inode, old_name_str, new_parent_inode, new_name_str) ==
    LET src_row == lookup(Db, old_parent_inode, old_name_str)
        dst_row == lookup(Db, new_parent_inode, new_name_str)
    IN /\ <<old_parent_inode, old_name_str>> # <<new_parent_inode, new_name_str>>
       /\ \A src \in src_row :
             /\ ~below_or_self(new_parent_inode, src)
             /\ \A dst \in dst_row :
                   /\ files[dst].is_dir = files[src].is_dir
                   /\ ~below_or_self(src, dst)

Rename(old_names, new_names) ==
    \E old_parent_inode \in {i \in DOMAIN files : files[i].is_dir},
       new_parent_inode \in {i \in DOMAIN files : files[i].is_dir},
       old_name_str \in old_names, new_name_str \in new_names :
       /\ vfs_rename(old_parent_inode, old_name_str,
                     new_parent_inode, new_name_str)
       /\ rename(old_parent_inode, old_name_str,
                 new_parent_inode, new_name_str)
       /\ UNCHANGED threadVars

\* restore of a file at any depth
RestorePath(paths, selectors, dry_runs, fails) ==
    \E file_path \in paths, sel \in selectors, dry_run \in dry_runs,
       fail \in fails :
       LET file_row == get_file_by_path(Db, file_path, TRUE)
       IN \E versions_list \in
               (IF file_row = NULL THEN {<<>>} ELSE list_versions(Db, file_row)) :
             Run(restore(Db, file_path, sel.version, sel.before, dry_run,
                         versions_list, fail))

PutBegin(datas) ==
    \E t \in PutThreads, data \in datas :
       /\ put_begin(t, data)
       /\ UNCHANGED <<dbVars, fsVars, now, result, flush_jobs, conn_tx>>

PutOpen ==
    \E t \in PutThreads :
       /\ put_open(t)
       /\ UNCHANGED <<dbVars, fsVars, now, result, flush_jobs, conn_tx>>

PutWrite ==
    \E t \in PutThreads :
       /\ put_write(t)
       /\ UNCHANGED <<dbVars, fsVars, now, result, flush_jobs, conn_tx>>

PutRename ==
    \E t \in PutThreads :
       /\ put_rename(t)
       /\ UNCHANGED <<dbVars, fsVars, now, result, flush_jobs, conn_tx>>

\* a write at any of the given offsets
WriteAt(offsets, bufs) ==
    \E fh \in DOMAIN file_handles, offset \in offsets, buf \in bufs :
       /\ write(fh, offset, buf)
       /\ UNCHANGED threadVars

FlushAwait ==
    \E fh \in DOMAIN file_handles :
       /\ flush_await(fh)
       /\ UNCHANGED <<put_threads, tmp_files, blob_inos, next_ino, conn_tx>>

FlushStoreSync ==
    \E j \in flush_jobs :
       /\ flush_store_sync(j)
       /\ UNCHANGED <<put_threads, tmp_files, blob_inos, next_ino, conn_tx>>

FlushCreateVersion ==
    \E j \in flush_jobs :
       /\ flush_create_version(j)
       /\ UNCHANGED <<put_threads, tmp_files, blob_inos, next_ino, conn_tx>>

FlushUpdateCache ==
    \E j \in flush_jobs :
       /\ flush_update_cache(j)
       /\ UNCHANGED <<put_threads, tmp_files, blob_inos, next_ino, conn_tx>>

FlushResume ==
    \E j \in flush_jobs :
       /\ flush_resume(j)
       /\ UNCHANGED <<put_threads, tmp_files, blob_inos, next_ino, conn_tx>>

\* MetadataDB.decrement_ref_count on the row of any stored object
DecrementRefCount ==
    \E o \in Range(objects) :
       /\ o.ref_count > MinRefCount
       /\ commit(decrement_ref_count(Db, o.hash))
       /\ result' = [op |-> "decrement_ref_count", status |-> "ok",
                     ref_count |-> o.ref_count - 1]
       /\ UNCHANGED <<fsVars, blobs, now, threadVars>>

\* truncate of any regular file to one of the given sizes
Setattr(sizes) ==
    \E inode \in {i \in DOMAIN files : ~files[i].is_dir}, new_size \in sizes :
       /\ setattr(inode, new_size)
       /\ UNCHANGED threadVars

\* a worker thread runs the next statement of its create_version
CreateVersionStep ==
    \E j \in flush_jobs :
        /\ create_version_step(j)
        /\ UNCHANGED <<fsVars, blobs, now, result, put_threads, tmp_files,
                       blob_inos, next_ino>>

\* the event loop makes a directory in the root while flushes are running
MkdirShared(names) ==
    \E name \in names :
        /\ mkdir_shared(ROOT_INODE, name)
        /\ UNCHANGED <<fsVars, blobs, now, put_threads, tmp_files, blob_inos,
                       next_ino, flush_jobs>>

\* a second passes
Tick ==
    /\ now < MaxTime
    /\ now' = now + 1
    /\ UNCHANGED <<dbVars, fsVars, blobs, result, threadVars>>

\* MetadataDB.initialize and COWFS.init: the schema, the root inode, the empty blob
Init ==
    /\ files = <<ROOT_INODE_SQL>>
    /\ versions = {}
    /\ objects = <<>>
    /\ snapshots = {}
    /\ snapshot_entries = {}
    /\ events = <<>>
    /\ sqlite_sequence = [versions |-> 0, snapshots |-> 0]
    /\ blobs = store_sync(EmptyMap, <<>>)
    /\ now = 0
    /\ write_buffers = EmptyMap
    /\ file_handles = EmptyMap
    /\ next_fh = 1
    /\ inode_hash_cache = EmptyMap
    /\ inode_size_cache = EmptyMap
    /\ result = FsOk("init")
    /\ put_threads = [t \in PutThreads |-> [pc |-> "idle", data |-> <<>>, fd |-> NULL]]
    /\ tmp_files = EmptyMap
    /\ blob_inos = EmptyMap
    /\ next_ino = 1
    /\ flush_jobs = {}
    /\ conn_tx = None

\* ------------------------------------------------------------ specifications
\* Spec: one file, written and rewritten, restored by number and by time,
\* unlinked and collected under every policy as the clock advances
Next ==
    \/ Create({<<"a">>})
    \/ Read
    \/ Write(WriteBufs)
    \/ Flush
    \/ Unlink({<<"a">>})
    \/ Restore({<<"a">>}, VersionSelectors \cup BeforeSelectors, {FALSE}, {0})
    \/ Gc(Policies, {FALSE}, {0})
    \/ Tick

Spec == Init /\ [][Next]_vars

\* SpecStore: every way a version row comes and goes (flush, restore, snapshot
\* restore, pruning by count and by time, collection) on one file
NextStore ==
    \/ Create({<<"a">>})
    \/ Write(WriteBufs)
    \/ Flush
    \/ Unlink({<<"a">>})
    \/ Restore({<<"a">>}, VersionSelectors, {FALSE}, {0})
    \/ Gc({NoPolicy, KeepLast(1), Before(1)}, {FALSE}, {0})
    \/ SnapshotCreate({"s1"}, {0})
    \/ SnapshotRestore({"s1"}, BOOLEAN, {FALSE}, {0})

SpecStore == Init /\ [][NextStore]_vars

\* SpecGcFaults: collections of one file's pruned versions in which the
\* blob delete of the first or of the second orphan may raise
NextGcFaults ==
    \/ Create({<<"a">>})
    \/ Write(WriteBufs)
    \/ Flush
    \/ Gc({NoPolicy, KeepLast(1)}, {FALSE}, FailAt)

SpecGcFaults == Init /\ [][NextGcFaults]_vars

\* SpecFaults: the five operator commands on one file, each with a call of
\* the handler that may raise (a snapshot restore soft-deletes the file when
\* the snapshot was taken before the file was created)
NextFaults ==
    \/ Create({<<"a">>})
    \/ Write({<<1>>})
    \/ Flush
    \/ Restore({<<"a">>}, VersionSelectors, {FALSE}, FailAt)
    \/ Gc({KeepLast(1)}, {FALSE}, FailAt)
    \/ SnapshotCreate({"s1"}, FailAt)
    \/ SnapshotDelete({"s1"}, FailAt)
    \/ SnapshotRestore({"s1"}, {FALSE}, {FALSE}, FailAt)

SpecFaults == Init /\ [][NextFaults]_vars

\* SpecSnapshots: two files created, rewritten and unlinked around the
\* creation and the restoration (with and without keep_new) of a snapshot
NextSnapshots ==
    \/ Create(FileNames)
    \/ Write({<<1>>})
    \/ Flush
    \/ Unlink(FileNames)
    \/ SnapshotCreate({"s1"}, {0})
    \/ SnapshotRestore({"s1"}, BOOLEAN, {FALSE}, {0})

SpecSnapshots == Init /\ [][NextSnapshots]_vars

\* SpecGcBefore: one file rewritten as the clock advances, captured by a
\* snapshot, and collected with every cutoff
NextGcBefore ==
    \/ Create({<<"a">>})
    \/ Write(WriteBufs)
    \/ Flush
    \/ Gc({Before(t) : t \in 0..(MaxTime + 1)}, {FALSE}, {0})
    \/ SnapshotCreate({"s1"}, {0})
    \/ Tick

SpecGcBefore == Init /\ [][NextGcBefore]_vars

\* SpecWrites: the write path alone, on two files through two handles
NextWrites ==
    \/ Create(FileNames)
    \/ Open
    \/ Write(WriteBufs)
    \/ Flush
    \/ Release
    \/ Unlink(FileNames)

SpecWrites == Init /\ [][NextWrites]_vars

\* SpecTree: a directory with a file in it, emptied, removed and renamed,
\* while the operator restores the file or the root and takes and restores
\* a snapshot
NextTree ==
    \/ Mkdir({<<"d">>})
    \/ Create({<<"a">>})
    \/ Unlink({<<"a">>})
    \/ Rmdir({<<"d">>})
    \/ Rename({<<"d">>}, {<<"e">>})
    \/ RestorePath({<<Slash>>, <<Slash, "d", Slash, "a">>},
                   {[version |-> Some(1), before |-> None]}, {FALSE}, {0})
    \/ SnapshotCreate({"s1"}, {0})
    \/ SnapshotRestore({"s1"}, {FALSE}, {FALSE}, {0})

SpecTree == Init /\ [][NextTree]_vars

\* SpecDirs: directories made, nested, filled, removed and renamed onto free
\* names and onto each other
NextDirs ==
    \/ Mkdir({<<"d">>})
    \/ Create({<<"a">>})
    \/ Unlink({<<"a">>})
    \/ Rmdir({<<"d">>, <<"e">>})
    \/ Rename({<<"d">>, <<"e">>}, {<<"d">>, <<"e">>})

SpecDirs == Init /\ [][NextDirs]_vars

\* SpecFileRename: two files written and renamed onto a free name and onto
\* each other (nothing is unlinked: a DELETE event is the work of a rename)
NextFileRename ==
    \/ Create(FileNames)
    \/ Write({<<1>>})
    \/ Flush
    \/ Rename(FileNames, FileNames \cup {<<"c">>})

SpecFileRename == Init /\ [][NextFileRename]_vars

\* SpecLeak: flushes of one file that may fail after the blob was stored,
\* and collections with and without pruning
NextLeak ==
    \/ Create({<<"a">>})
    \/ Write(WriteBufs)
    \/ Flush
    \/ FlushRaises
    \/ Gc({NoPolicy, KeepLast(1)}, {FALSE}, {0})

SpecLeak == Init /\ [][NextLeak]_vars

\* SpecPuts: two threads store contents, also the same content at the same
\* time, every system call of one interleaved with those of the other
NextPuts ==
    \/ PutBegin(WriteBufs)
    \/ PutOpen
    \/ PutWrite
    \/ PutRename

SpecPuts == Init /\ [][NextPuts]_vars

\* SpecSelectors: restore and gc called with every shape of selector, the
\* refused ones included, on a file that exists and on a path that does not
NextSelectors ==
    \/ Create({<<"a">>})
    \/ Write({<<1>>})
    \/ Flush
    \/ Tick
    \/ Restore(FileNames,
               VersionSelectors \cup BeforeSelectors \cup RefusedSelectors,
               BOOLEAN, {0})
    \/ Gc({NoPolicy, KeepLast(1)} \cup RefusedPolicies, BOOLEAN, {0})

SpecSelectors == Init /\ [][NextSelectors]_vars

\* SpecDryRun: one file written, unlinked and captured in a snapshot, with
\* restore, snapshot restore and gc (under every policy) as dry runs
NextDryRun ==
    \/ Create({<<"a">>})
    \/ Write({<<1>>})
    \/ Flush
    \/ Unlink({<<"a">>})
    \/ Tick
    \/ SnapshotCreate({"s1"}, {0})
    \/ Restore({<<"a">>}, VersionSelectors \cup BeforeSelectors, {TRUE}, {0})
    \/ Gc(Policies, {TRUE}, {0})
    \/ SnapshotRestore({"s1"}, BOOLEAN, {TRUE}, {0})

SpecDryRun == Init /\ [][NextDryRun]_vars

\* SpecPinned: two snapshots of one file, one of them deleted, while the
\* file is rewritten, unlinked, renamed, restored and pruned around them
NextPinned ==
    \/ Create({<<"a">>})
    \/ Write({<<1>>})
    \/ Flush
    \/ Unlink({<<"a">>})
    \/ Rename({<<"a">>}, {<<"b">>})
    \/ Restore({<<"a">>}, {[version |-> Some(1), before |-> None]},
               {FALSE}, {0})
    \/ SnapshotCreate(SnapshotNames, {0})
    \/ SnapshotDelete({"s1"}, {0})
    \/ SnapshotRestore({"s2"}, {FALSE}, {FALSE}, {0})
    \/ Gc({KeepLast(1)}, {FALSE}, {0})

SpecPinned == Init /\ [][NextPinned]_vars

\* SpecTouch: files created, opened, written and released without an
\* explicit flush, so that a version beyond the first comes from release only
NextTouch ==
    \/ Create(FileNames)
    \/ Open
    \/ Write(WriteBufs)
    \/ Release
    \/ Unlink(FileNames)

SpecTouch == Init /\ [][NextTouch]_vars

\* SpecFlushRace: one file written at two offsets through its handle while
\* flushes of that handle run in their worker thread
NextFlushRace ==
    \/ Create({<<"a">>})
    \/ WriteAt({0, 1}, WriteBufs)
    \/ FlushAwait
    \/ FlushStoreSync
    \/ FlushCreateVersion
    \/ FlushUpdateCache
    \/ FlushResume

SpecFlushRace == Init /\ [][NextFlushRace]_vars

\* SpecOrphans: objects orphaned by pruning and by decrement_ref_count, some
\* of them still named by a version, and collected
NextOrphans ==
    \/ Create({<<"a">>})
    \/ Write(WriteBufs)
    \/ Flush
    \/ DecrementRefCount
    \/ Gc({NoPolicy, KeepLast(1)}, {FALSE}, {0})

SpecOrphans == Init /\ [][NextOrphans]_vars

\* SpecSplice: one file written at offsets inside and past its end, flushed,
\* and restored by the operator while its handle stays open
NextSplice ==
    \/ Create({<<"a">>})
    \/ WriteAt({0, 1}, WriteBufs)
    \/ Flush
    \/ Restore({<<"a">>}, VersionSelectors, {FALSE}, {0})

SpecSplice == Init /\ [][NextSplice]_vars

\* SpecReadRace: one file written and read through its handle while flushes
\* of that handle run in their worker thread
NextReadRace ==
    \/ Create({<<"a">>})
    \/ Write(WriteBufs)
    \/ Read
    \/ FlushAwait
    \/ FlushStoreSync
    \/ FlushCreateVersion
    \/ FlushUpdateCache
    \/ FlushResume

SpecReadRace == Init /\ [][NextReadRace]_vars

\* SpecTruncate: one file truncated with and without an open handle, opened,
\* released, and flushed by flushes that may fail after the blob was stored
NextTruncate ==
    \/ Create({<<"a">>})
    \/ Open
    \/ Release
    \/ Setattr({0, 1})
    \/ Flush
    \/ FlushRaises

SpecTruncate == Init /\ [][NextTruncate]_vars

\* SpecSerial: files created while the connection is idle, their flushes
\* running in worker threads statement by statement, and the event loop
\* making a directory on the same connection
NextSerial ==
    \/ (conn_tx = None /\ flush_jobs = {} /\ Create(FileNames))
    \/ FlushAwait
    \/ FlushStoreSync
    \/ CreateVersionStep
    \/ FlushUpdateCache
    \/ FlushResume
    \/ MkdirShared({<<"d">>})

SpecSerial == Init /\ [][NextSerial]_vars

\* SpecGcRace: one file written, truncated and flushed in a worker thread step
\* by step, while the operator's gc --keep-last 1 runs in its own process
NextGcRace ==
    \/ Create({<<"a">>})
    \/ Write(WriteBufs)
    \/ Setattr({0})
    \/ FlushAwait
    \/ FlushStoreSync
    \/ FlushCreateVersion
    \/ FlushUpdateCache
    \/ FlushResume
    \/ Gc({KeepLast(1)}, {FALSE}, {0})

SpecGcRace == Init /\ [][NextGcRace]_vars

\* SpecLike: directories whose names are a LIKE wildcard or differ from a
\* sibling's in letter case only, a file in any of them, and renames of those
\* directories onto a free name
NextLike ==
    \/ Mkdir({<<"_">>, <<"d">>, <<"D">>})
    \/ Create({<<"a">>})
    \/ Rename({<<"_">>, <<"D">>}, {<<"e">>})

SpecLike == Init /\ [][NextLike]_vars

\* SpecOccupied: files and directories made, removed and made again under
\* the names a and d, in the root and below
NextOccupied ==
    \/ Create({<<"a">>, <<"d">>})
    \/ Mkdir({<<"a">>, <<"d">>})
    \/ Unlink({<<"a">>, <<"d">>})
    \/ Rmdir({<<"a">>, <<"d">>})

SpecOccupied == Init /\ [][NextOccupied]_vars

\* ------------------------------------------------------------ properties
RECURSIVE sum_ref_counts(_)
sum_ref_counts(objs) ==
    IF objs = <<>> THEN 0
    ELSE Head(objs).ref_count + sum_ref_counts(Tail(objs))

\* C1: for every hash H the object row's ref_count is the number of version
\* rows with object_hash = H (a hash that versions name has exactly one row),
\* and the ref_counts add up to the number of version rows.
RefCountLaw ==
    /\ \A i \in DOMAIN objects :
          objects[i].ref_count =
             Cardinality({v \in versions : v.object_hash = objects[i].hash})
    /\ \A i, j \in DOMAIN objects :
          objects[i].hash = objects[j].hash => i = j
    /\ \A v \in versions : get_object(Db, v.object_hash) # {}
    /\ sum_ref_counts(objects) = Cardinality(versions)

\* a blob shared by two versions, after a pruning has removed version rows
RefCountLawWitness ==
    /\ \E i \in DOMAIN objects : objects[i].ref_count = 2
    /\ Cardinality(versions) < sqlite_sequence.versions

\* C2: every version row's object_hash names a blob that exists in the object
\* store, in every state reached by create, write flush, soft-delete, restore,
\* snapshot create/restore and collections that completed.
BlobPresence == \A v \in versions : exists(blobs, v.object_hash)

\* a collection completed and removed a blob while version rows remain
BlobPresenceWitness ==
    /\ result.op = "gc" /\ result.status = "ok"
    /\ result.processed_objects >= 1 /\ result.reclaimed_bytes >= 1
    /\ versions # {}

\* C3: when a blob delete fails at any point of the orphan loop of a real gc,
\* gc ends in error and afterwards every version row and object row that
\* existed before exists again and every version's blob is still in the store.
GcFailureRollback ==
    [][(/\ result'.op = "gc"
        /\ result'.status = "error"
        /\ result'.error = "TRANSACTION_FAILED"
        /\ Gc(Policies, {FALSE}, FailAt))
       => /\ versions' = versions
          /\ objects' = objects
          /\ \A v \in versions' : exists(blobs', v.object_hash)]_vars

\* the rows are back, yet a version's blob is gone: the delete of an earlier
\* orphan of the failed run was carried out on disk
GcFailureLosesBlob ==
    /\ result.op = "gc" /\ result.status = "error"
    /\ result.error = "TRANSACTION_FAILED"
    /\ \E v \in versions : ~exists(blobs, v.object_hash)

\* C4: every file's non-null current_version_id is the id of an existing
\* version row of that file; no collection, by count (k >= 1) or by cutoff,
\* deletes a version that is some file's current version.
CurrentVersionValid ==
    \A i \in DOMAIN files :
       files[i].current_version_id # NULL =>
          \E v \in versions :
             v.id = files[i].current_version_id /\ v.file_id = i

\* a collection by cutoff has pruned versions of a soft-deleted file
CurrentVersionValidWitness ==
    /\ result.op = "gc" /\ result.status = "ok"
    /\ result.before # None /\ result.versions_pruned >= 1
    /\ \E i \in DOMAIN files :
          files[i].is_deleted /\ files[i].current_version_id # NULL

\* C6: after restore(path, version=k), not a dry run, on the k-th row of the
\* version list, the file is live, its current version has the hash and size
\* of that row, and reading the file (no unflushed buffer) returns that row's
\* blob; whether the file was live or soft-deleted before.
RestoreRoundTrip ==
    [][\A n \in FileNames, k \in 1..MaxVersionId :
         result'.op = "restore" =>
         LET file_path == <<Slash>> \o n
             f == get_file_by_path(Db, file_path, TRUE)
         IN f # NULL =>
            \A v \in list_versions(Db, f) :
               (/\ k <= Len(v)
                /\ Run(restore(Db, file_path, Some(k), None, FALSE, v, 0)))
               => /\ ~files'[f].is_deleted
                  /\ \E c \in versions' :
                        /\ c.id = files'[f].current_version_id
                        /\ c.object_hash = v[k].object_hash
                        /\ c.size_bytes = v[k].size_bytes
                  /\ f \notin DOMAIN write_buffers' =>
                        read_inode(Db', blobs', f, write_buffers',
                                   inode_hash_cache', inode_size_cache',
                                   0, MaxReadLength).data
                          = Some(read_sync(blobs, v[k].object_hash))]_vars

\* a restore to an older content went through while the adapter's cache
\* still names the hash of the last flush
RestoreReadsStale ==
    /\ result.op = "restore" /\ result.status = "ok"
    /\ \E f \in DOMAIN files :
          /\ files[f].path = result.path
          /\ f \notin DOMAIN write_buffers
          /\ f \in DOMAIN inode_hash_cache
          /\ inode_hash_cache[f] # result.target_hash

\* C7: a restore that is not a dry run adds exactly one version row, with the
\* target's hash and size, that becomes the file's current version; adds one
\* to the target object's ref_count; appends one RESTORE event; and leaves
\* every version row that existed, the target included, as it was.
RestoreAppends ==
    [][(/\ result'.op = "restore"
        /\ result'.status = "ok"
        /\ Restore(FileNames, VersionSelectors \cup BeforeSelectors,
                   {FALSE}, FailAt))
       => /\ versions \subseteq versions'
          /\ Cardinality(versions' \ versions) = 1
          /\ \A nv \in versions' \ versions :
                /\ nv.object_hash = result'.target_hash
                /\ nv.size_bytes = result'.target_size
                /\ \E f \in DOMAIN files' :
                      /\ files'[f].path = result'.path
                      /\ nv.file_id = f
                      /\ files'[f].current_version_id = nv.id
          /\ \E t \in versions :
                /\ t.object_hash = result'.target_hash
                /\ t.size_bytes = result'.target_size
          /\ DOMAIN objects' = DOMAIN objects
          /\ \A i \in DOMAIN objects :
                objects'[i] =
                   IF objects[i].hash = result'.target_hash
                   THEN [objects[i] EXCEPT !.ref_count = @ + 1]
                   ELSE objects[i]
          /\ Len(events') = Len(events) + 1
          /\ SubSeq(events', 1, Len(events)) = events
          /\ events'[Len(events')].action = "RESTORE"]_vars

\* a restore has revived a soft-deleted file on a blob two versions share
RestoreAppendsWitness ==
    /\ result.op = "restore" /\ result.status = "ok" /\ ~result.dry_run
    /\ events # <<>> /\ events[Len(events)].action = "RESTORE"
    /\ \E i \in DOMAIN events : events[i].action = "DELETE"
    /\ \E i \in DOMAIN objects :
          objects[i].hash = result.target_hash /\ objects[i].ref_count >= 2

\* a call of one of the five operator commands, with any argument and any
\* call of its handler raising
OperatorCall ==
    \/ Restore(FileNames,
               VersionSelectors \cup BeforeSelectors \cup RefusedSelectors,
               BOOLEAN, FailAt)
    \/ Gc(Policies \cup RefusedPolicies, BOOLEAN, FailAt)
    \/ SnapshotCreate(SnapshotNames, FailAt)
    \/ SnapshotDelete(SnapshotNames, FailAt)
    \/ SnapshotRestore(SnapshotNames, BOOLEAN, BOOLEAN, FailAt)

\* C5: after an operator call (restore, snapshot create, snapshot restore,
\* snapshot delete, gc) that ends in an error at any step, the tables files,
\* versions, objects, snapshots, snapshot_entries and events are as they were
\* before the call.
AtomicOnError ==
    [][(result'.status = "error" /\ OperatorCall)
       => /\ files' = files
          /\ versions' = versions
          /\ objects' = objects
          /\ snapshots' = snapshots
          /\ snapshot_entries' = snapshot_entries
          /\ events' = events]_vars

\* snapshot create ended in error, yet its snapshot row is stored: no
\* SNAPSHOT_CREATE event was recorded for it
SnapshotWithoutEvent ==
    /\ result.op = "snapshot_create" /\ result.status = "error"
    /\ result.error = "TRANSACTION_FAILED"
    /\ snapshots # {}
    /\ ~\E i \in DOMAIN events : events[i].action = "SNAPSHOT_CREATE"

\* the entries of the snapshot of that name
entries_of(d, name) ==
    {e \in d.snapshot_entries :
        \E sn \in get_snapshot_by_name(d, name) : e.snapshot_id = sn.id}

\* C8: after a successful snapshot restore in which no entry's version is
\* missing, with keep_new=false the live regular files are exactly the files
\* with an entry in the snapshot; with keep_new=true no file is soft-deleted;
\* either way each file with an entry is live and its current version is a
\* newly appended version with the hash and size of the entry's version.
SnapshotRestoreEffect ==
    [][\A name \in SnapshotNames, keep_new \in BOOLEAN :
         (/\ result'.op = "snapshot_restore"
          /\ result'.status = "ok"
          /\ result'.skipped_missing_versions = 0
          /\ SnapshotRestore({name}, {keep_new}, {FALSE}, FailAt))
         => LET ids == {e.file_id : e \in entries_of(Db, name)}
            IN /\ ~keep_new => list_active_file_ids(Db') = ids
               /\ keep_new =>
                     list_active_file_ids(Db') = list_active_file_ids(Db) \cup ids
               /\ \A e \in entries_of(Db, name) :
                     \E nv \in versions' \ versions, ov \in versions :
                        /\ nv.id = files'[e.file_id].current_version_id
                        /\ nv.file_id = e.file_id
                        /\ ov.id = e.version_id
                        /\ nv.object_hash = ov.object_hash
                        /\ nv.size_bytes = ov.size_bytes]_vars

\* a restore without keep_new has soft-deleted a file created after the
\* snapshot and appended a version to the file that the snapshot holds
SnapshotRestoreEffectWitness ==
    /\ result.op = "snapshot_restore" /\ result.status = "ok"
    /\ ~result.keep_new /\ ~result.dry_run
    /\ result.files_soft_deleted = 1 /\ result.files_restored = 1
    /\ \E i \in DOMAIN files : files[i].is_deleted
    /\ \E v, w \in versions :
          v.id < w.id /\ v.file_id = w.file_id /\ v.object_hash = w.object_hash

\* C9: the entries of a newly created snapshot are exactly the pairs (file id,
\* current_version_id) of the files that are live, not directories and have a
\* current version; creating a snapshot under a name that exists fails and
\* adds no snapshot row and no entry.
SnapshotCreateCaptures ==
    [][\A name \in SnapshotNames :
         (result'.op = "snapshot_create" /\ SnapshotCreate({name}, FailAt)) =>
            IF get_snapshot_by_name(Db, name) # {}
            THEN /\ result'.status = "error"
                 /\ snapshots' = snapshots
                 /\ snapshot_entries' = snapshot_entries
            ELSE result'.status = "ok" =>
                 /\ \E sn \in snapshots' \ snapshots :
                       /\ sn.name = name
                       /\ snapshots' = snapshots \cup {sn}
                 /\ snapshot_entries \subseteq snapshot_entries'
                 /\ {<<e.file_id, e.version_id>> : e \in entries_of(Db', name)}
                      = {<<i, files[i].current_version_id>> :
                            i \in {j \in DOMAIN files :
                                      /\ ~files[j].is_deleted
                                      /\ ~files[j].is_dir
                                      /\ files[j].current_version_id # NULL}}
                 /\ snapshot_entries' \ snapshot_entries = entries_of(Db', name)]_vars

\* a snapshot was created while one file was live and another soft-deleted
SnapshotCreateCapturesWitness ==
    /\ result.op = "snapshot_create" /\ result.status = "ok"
    /\ result.file_count = 1
    /\ \E i \in DOMAIN files : files[i].is_deleted
    /\ Cardinality(snapshot_entries) = 1

\* w is more recent than v by (created_at, id)
MoreRecent(w, v) ==
    \/ w.created_at > v.created_at
    \/ w.created_at = v.created_at /\ w.id > v.id

\* C10: from any reachable state, also one in which a snapshot entry names a
\* version that is not among its file's k most recent, a real gc with
\* keep_last=k completes successfully, every file (live or soft-deleted) with
\* n versions keeps exactly its min(k, n) most recent versions by
\* (created_at, id), and versions_pruned is the number of versions removed.
GcKeepLast ==
    [][\A k \in KeepLastValues :
         (result'.op = "gc" /\ Gc({KeepLast(k)}, {FALSE}, {0}))
         => /\ result'.status = "ok"
            /\ \A f \in DOMAIN files :
                  LET vs == {v \in versions : v.file_id = f}
                  IN {v \in versions' : v.file_id = f} =
                        {v \in vs :
                            Cardinality({w \in vs : MoreRecent(w, v)}) < k}
            /\ result'.versions_pruned = Cardinality(versions \ versions')]_vars

\* gc --keep-last ended in IntegrityError: a snapshot entry names a version
\* outside the most recent ones, and every version is still there
GcKeepLastRefused ==
    /\ result.op = "gc" /\ result.status = "error"
    /\ result.error = "IntegrityError"
    /\ \E e \in snapshot_entries, v \in versions :
          /\ e.version_id = v.id
          /\ \E w \in versions : w.file_id = v.file_id /\ MoreRecent(w, v)

\* C11: the versions removed by a real gc with before=cutoff are exactly the
\* versions created earlier than the cutoff that no file's current_version_id
\* points to; versions created at or after the cutoff and current versions
\* are kept.
GcBefore ==
    [][\A t \in 0..(MaxTime + 1) :
         (result'.op = "gc" /\ Gc({Before(t)}, {FALSE}, {0}))
         => /\ versions' \subseteq versions
            /\ versions \ versions' =
                  {v \in versions :
                      /\ v.created_at < t
                      /\ \A i \in DOMAIN files :
                            files[i].current_version_id # v.id}]_vars

\* gc --before ended in IntegrityError: a snapshot entry names a version
\* that is older than the current one of its file and is still there
GcBeforeRefused ==
    /\ result.op = "gc" /\ result.status = "error"
    /\ result.error = "IntegrityError"
    /\ \E e \in snapshot_entries, v \in versions :
          /\ e.version_id = v.id
          /\ v.created_at < now
          /\ files[v.file_id].current_version_id # v.id

\* C12: every flush of a dirty buffer with content B for inode i adds exactly
\* one version row (file_id = i, hash = H(B), size = |B|), even when B is the
\* current content; the object row of H(B) is inserted with ref_count 1 or
\* has its ref_count raised by exactly 1; current_version_id(i) becomes the
\* new version; and exactly one WRITE event is appended that carries the
\* file's path, the version id and H(B).
WritePipeline ==
    [][\A fh \in DOMAIN file_handles :
         LET i == file_handles[fh].inode
         IN (/\ file_handles[fh].dirty
             /\ i \in DOMAIN write_buffers
             /\ flush(fh))
            => LET B == write_buffers[i]
                   H == compute_hash(B)
                   before == get_object(Db, H)
               IN /\ \E v \in versions' \ versions :
                        /\ versions' = versions \cup {v}
                        /\ v.file_id = i
                        /\ v.object_hash = H
                        /\ v.size_bytes = Len(B)
                        /\ files'[i].current_version_id = v.id
                        /\ events' = Append(events,
                              [action |-> "WRITE", path |-> files[i].path,
                               version_id |-> v.id, object_hash |-> H])
                  /\ \E o \in get_object(Db', H) :
                        o.ref_count =
                           IF before = {} THEN 1
                           ELSE (CHOOSE x \in before : TRUE).ref_count + 1
                  /\ \A o \in Range(objects) :
                        o.hash # H => o \in Range(objects')
                  /\ Len(objects') = Len(objects) + (IF before = {} THEN 1 ELSE 0)]_vars

\* a flush on a handle of an unlinked file left a WRITE event without a path,
\* and its version is the current one of the soft-deleted file
WriteEventWithoutPath ==
    \E k \in DOMAIN events, i \in DOMAIN files :
       /\ events[k].action = "WRITE"
       /\ events[k].path = NoPath
       /\ files[i].is_deleted
       /\ files[i].current_version_id = events[k].version_id

\* two version rows that hold the same content
SameContent(v, w) == v.id # w.id /\ v.object_hash = w.object_hash

\* C13 (as stated): after any sequence of writes the sum of object sizes is
\* at most the sum of version sizes, and the sums are equal if and only if
\* no two versions (the zero-length version of create included) hold the
\* same content.
DedupSumsIffDistinct ==
    LET stats == get_stats(Db)
    IN /\ stats.actual_size_bytes <= stats.logical_size_bytes
       /\ (stats.actual_size_bytes = stats.logical_size_bytes
           <=> \A v, w \in versions : ~SameContent(v, w))

\* C13 (amended): after any sequence of writes the sum of object sizes is at
\* most the sum of version sizes, and the sums are equal if and only if every
\* content held by more than one version has length zero.
DedupSums ==
    LET stats == get_stats(Db)
    IN /\ stats.actual_size_bytes <= stats.logical_size_bytes
       /\ (stats.actual_size_bytes = stats.logical_size_bytes
           <=> \A v, w \in versions : SameContent(v, w) => v.size_bytes = 0)

\* two versions hold the same (empty) content and a third holds bytes, and
\* the objects' sizes still add up to the versions' sizes
DedupSumsWitness ==
    /\ \E v, w \in versions : SameContent(v, w) /\ v.size_bytes = 0
    /\ \E v \in versions : v.size_bytes > 0
    /\ get_stats(Db).actual_size_bytes = get_stats(Db).logical_size_bytes

\* C14: soft-deleting a file or directory (unlink, rmdir) changes only that
\* row's is_deleted flag and appends one DELETE event with its path; version
\* rows, object rows and ref_counts, snapshot entries and all other file rows
\* are unchanged.
SoftDeleteFrame ==
    [][\A inode \in DOMAIN files :
         (/\ ~files[inode].is_deleted
          /\ result'.status = "ok"
          /\ \/ unlink(files[inode].parent_id, files[inode].name)
             \/ rmdir(files[inode].parent_id, files[inode].name))
         => /\ files' = [files EXCEPT ![inode].is_deleted = TRUE]
            /\ events' = Append(events,
                  [action |-> "DELETE", path |-> files[inode].path,
                   version_id |-> NULL, object_hash |-> NoHash])
            /\ UNCHANGED <<versions, objects, snapshot_entries,
                           snapshots>>]_vars

\* a file that a snapshot entry names was unlinked: it keeps its current
\* version, and the DELETE event is the last one
SoftDeleteFrameWitness ==
    /\ events # <<>>
    /\ events[Len(events)].action = "DELETE"
    /\ \E i \in DOMAIN files :
          /\ files[i].is_deleted
          /\ files[i].path = events[Len(events)].path
          /\ files[i].current_version_id # NULL
          /\ \E e \in snapshot_entries : e.file_id = i

\* the adapter refused with ENOTEMPTY and wrote nothing
NotEmptyRefusal ==
    /\ result' = FsError("fuse", "ENOTEMPTY")
    /\ UNCHANGED <<dbVars, fsVars, blobs>>

\* C15: rmdir of a directory with at least one live child, and rename of an
\* existing source onto a directory with at least one live child, fail with
\* ENOTEMPTY and leave all file rows, events and caches unchanged.
NotEmpty ==
    [][\A dst \in DOMAIN files :
         (/\ ~files[dst].is_deleted
          /\ files[dst].is_dir
          /\ list_children(Db, dst) # {})
         => /\ rmdir(files[dst].parent_id, files[dst].name)
               => NotEmptyRefusal
            /\ \A src \in DOMAIN files :
                  (/\ ~files[src].is_deleted
                   /\ vfs_rename(files[src].parent_id, files[src].name,
                                 files[dst].parent_id, files[dst].name)
                   /\ rename(files[src].parent_id, files[src].name,
                             files[dst].parent_id, files[dst].name))
                  => NotEmptyRefusal]_vars

\* ENOTEMPTY was returned while two directories are live, one of them with a
\* live child and the other empty
NotEmptyWitness ==
    /\ result = FsError("fuse", "ENOTEMPTY")
    /\ \E i, j \in DOMAIN files :
          /\ i # j /\ i # ROOT_INODE /\ j # ROOT_INODE
          /\ files[i].is_dir /\ ~files[i].is_deleted
          /\ files[j].is_dir /\ ~files[j].is_deleted
          /\ files[i].parent_id = files[j].parent_id
          /\ list_children(Db, i) # {}
          /\ list_children(Db, j) = {}

\* C16: when rename is called and a live file or an empty directory already
\* has the new name under the new parent, then after the call either the
\* destination is soft-deleted and the source has the new parent, name and
\* path, or no file row has changed; the destination is never soft-deleted
\* while the source keeps its old path.
RenameOntoExisting ==
    [][\A src \in DOMAIN files, dst \in DOMAIN files :
         (/\ ~files[src].is_deleted
          /\ ~files[dst].is_deleted
          /\ (files[dst].is_dir => list_children(Db, dst) = {})
          /\ vfs_rename(files[src].parent_id, files[src].name,
                        files[dst].parent_id, files[dst].name)
          /\ rename(files[src].parent_id, files[src].name,
                    files[dst].parent_id, files[dst].name))
         => \/ /\ files'[dst].is_deleted
               /\ files'[src].parent_id = files[dst].parent_id
               /\ files'[src].name = files[dst].name
               /\ files'[src].path = files[dst].path
            \/ files' = files]_vars

\* a rename ended in IntegrityError after it had soft-deleted its
\* destination: the DELETE event of the destination is the last event, and
\* another live file, the source, is where it was
RenameLostDestination ==
    /\ result = FsError("fuse", "IntegrityError")
    /\ events # <<>>
    /\ events[Len(events)].action = "DELETE"
    /\ \E src, dst \in DOMAIN files :
          /\ files[dst].is_deleted
          /\ files[dst].path = events[Len(events)].path
          /\ ~files[src].is_deleted
          /\ ~files[src].is_dir
          /\ files[src].parent_id = files[dst].parent_id
          /\ files[src].path # files[dst].path

\* path is prefix followed by at least one more character
starts_with(path, prefix) ==
    /\ Len(path) > Len(prefix)
    /\ SubSeq(path, 1, Len(prefix)) = prefix

\* C17: after a directory is renamed from path d to path d2, the directory
\* has path d2 and every row (live or soft-deleted) whose path was d/s has
\* path d2/s, for every suffix s at any depth; no file id changes.
RenameRecursion ==
    [][\A src \in DOMAIN files, new_parent_inode \in DOMAIN files,
          new_name_str \in {<<"d">>, <<"e">>} :
         (/\ ~files[src].is_deleted
          /\ files[src].is_dir
          /\ result' = FsOk("rename")
          /\ vfs_rename(files[src].parent_id, files[src].name,
                        new_parent_inode, new_name_str)
          /\ rename(files[src].parent_id, files[src].name,
                    new_parent_inode, new_name_str))
         => LET d1 == files[src].path
                d2 == full_path(files[new_parent_inode].path, new_name_str)
            IN /\ DOMAIN files' = DOMAIN files
               /\ files'[src].path = d2
               /\ \A i \in DOMAIN files :
                     starts_with(files[i].path, d1 \o <<Slash>>)
                     => /\ files'[i].path =
                              d2 \o SubSeq(files[i].path, Len(d1) + 1,
                                           Len(files[i].path))
                        /\ files'[i].parent_id = files[i].parent_id
                        /\ files'[i].name = files[i].name]_vars

\* a directory was renamed to /e with a directory in it that holds a
\* soft-deleted file, two levels below
RenameRecursionWitness ==
    /\ result = FsOk("rename")
    /\ \E i, j, k \in DOMAIN files :
          /\ files[i].path = <<Slash, "e">>
          /\ files[j].parent_id = i
          /\ files[j].path = <<Slash, "e", Slash, "d">>
          /\ files[k].parent_id = j
          /\ files[k].path = <<Slash, "e", Slash, "d", Slash, "a">>
          /\ files[k].is_deleted

\* C18: in every reachable state every live file or directory has a live
\* parent directory.
LiveParent ==
    \A i \in DOMAIN files :
       ~files[i].is_deleted
       => /\ ~files[files[i].parent_id].is_deleted
          /\ files[files[i].parent_id].is_dir

\* an operator's restore or snapshot restore succeeded, and a live file lies
\* in a soft-deleted directory
LiveUnderDeleted ==
    /\ result.op \in {"restore", "snapshot_restore"}
    /\ result.status = "ok"
    /\ \E i \in DOMAIN files :
          /\ ~files[i].is_deleted
          /\ ~files[i].is_dir
          /\ files[files[i].parent_id].is_deleted

\* C19: in every reachable state the row with id 1 exists, is a directory
\* with path '/', is its own parent and is not soft-deleted.
RootInvariant ==
    /\ ROOT_INODE \in DOMAIN files
    /\ files[ROOT_INODE].is_dir
    /\ files[ROOT_INODE].path = <<Slash>>
    /\ files[ROOT_INODE].parent_id = ROOT_INODE
    /\ ~files[ROOT_INODE].is_deleted

\* a snapshot restore has soft-deleted every file it found live, every
\* directory of the tree was removed or renamed before, and the root is the
\* only live row left
RootInvariantWitness ==
    /\ result.op = "snapshot_restore" /\ result.status = "ok"
    /\ result.files_soft_deleted > 0
    /\ \E i \in DOMAIN files : files[i].is_dir /\ files[i].is_deleted
    /\ \A i \in DOMAIN files : ~files[i].is_deleted <=> i = ROOT_INODE

\* C20: in every reachable state no two file rows, live or soft-deleted,
\* have the same path.
PathUnique ==
    \A i \in DOMAIN files, j \in DOMAIN files :
       i # j => files[i].path # files[j].path

\* a rename onto /e was refused by UNIQUE(path): the soft-deleted directory
\* /e holds the path, and the directory that was to take it is still /d
PathUniqueWitness ==
    /\ result = FsError("fuse", "IntegrityError")
    /\ \E i, j \in DOMAIN files :
          /\ files[i].is_dir /\ files[i].is_deleted
          /\ files[i].path = <<Slash, "e">>
          /\ files[j].is_dir /\ ~files[j].is_deleted
          /\ files[j].path = <<Slash, "d">>

\* a blob that a write stored and that no object row and no version names
leaked(h) ==
    /\ h \in DOMAIN blobs
    /\ h # EMPTY_HASH
    /\ get_object(Db, h) = {}
    /\ \A v \in versions : v.object_hash # h

\* C21: a blob that was put into the object store by a write whose metadata
\* transaction then failed (no object row and no version names it) is
\* removed from the object store by the next successful real gc.
LeakedBlobReclaimed ==
    [][(/\ result'.op = "gc"
        /\ result'.status = "ok"
        /\ Gc({NoPolicy, KeepLast(1)}, {FALSE}, {0}))
       => \A h \in DOMAIN blobs : leaked(h) => h \notin DOMAIN blobs']_vars

\* a real gc completed and the blob of the failed write is still in the store
LeakedBlobSurvivesGc ==
    /\ result.op = "gc" /\ result.status = "ok" /\ ~result.dry_run
    /\ \E h \in DOMAIN blobs : leaked(h)

\* C22: when two threads concurrently put identical content, both puts
\* return the hash without error and the blob holds exactly that content;
\* a reader of a blob path never observes partial or changing content.
PutsSafe ==
    /\ \A t \in PutThreads : put_threads[t].pc # "raised"
    /\ \A h \in DOMAIN blobs : compute_hash(blobs[h]) = h

\* a blob is visible under its final path with content that is not the
\* content of its hash, while a thread that holds it open has yet to write
BlobTornVisible ==
    \E h \in DOMAIN blobs, t \in PutThreads :
       /\ compute_hash(blobs[h]) # h
       /\ put_threads[t].pc = "write"
       /\ compute_hash(put_threads[t].data) = h
       /\ blob_inos[h] = put_threads[t].fd

\* C23: each committed operation that changes a metadata table appends at
\* least one event row, and existing event rows are never modified or
\* removed.
EveryChangeLogged ==
    [][/\ Len(events') >= Len(events)
       /\ SubSeq(events', 1, Len(events)) = events
       /\ <<files, versions, objects, snapshots, snapshot_entries>>' #
             <<files, versions, objects, snapshots, snapshot_entries>>
          => Len(events') > Len(events)]_vars

\* directories were made and one of them renamed to /e, and the event log
\* is still empty
UnloggedChanges ==
    /\ events = <<>>
    /\ \E i, j \in DOMAIN files :
          /\ i # j
          /\ files[i].path = <<Slash, "e">>
          /\ files[j].path = <<Slash, "d">>

\* the k-th version of file f in ascending (created_at, id) order, as a set
\* of at most one row
kth_version(vs, f, k) ==
    {v \in vs :
        /\ v.file_id = f
        /\ Cardinality({w \in vs : w.file_id = f /\ MoreRecent(v, w)}) = k - 1}

SelectorValidation ==
    [][/\ \A n \in FileNames,
             sel \in VersionSelectors \cup BeforeSelectors \cup RefusedSelectors,
             dry_run \in BOOLEAN :
          LET file_path == <<Slash>> \o n
              file_row == get_file_by_path(Db, file_path, TRUE)
          IN \A versions_list \in
                  (IF file_row = NULL THEN {<<>>}
                   ELSE list_versions(Db, file_row)) :
                (/\ \/ (sel.version = None) = (sel.before = None)
                    \/ file_row = NULL
                    \/ /\ sel.version # None
                       /\ sel.version[1] \notin 1..Len(versions_list)
                 /\ Run(restore(Db, file_path, sel.version, sel.before,
                                dry_run, versions_list, 0)))
                => /\ result'.status = "error"
                   /\ UNCHANGED dbVars
       /\ \A policy \in RefusedPolicies, dry_run \in BOOLEAN :
             Run(gc_command(Db, policy.keep_last, policy.before, dry_run, 0))
             => /\ result'.status = "error"
                /\ UNCHANGED <<dbVars, blobs>>]_vars

\* restore with a version number outside 1..2 has just been refused on a
\* file with two versions
SelectorValidationWitness ==
    /\ result.op = "restore" /\ result.status = "error"
    /\ result.error = "OUT_OF_RANGE"
    /\ \E f \in DOMAIN files :
          /\ files[f].path = <<Slash, "a">>
          /\ Cardinality({v \in versions : v.file_id = f}) = 2

\* C26: restore, snapshot restore and gc (with no policy, keep_last or before)
\* invoked with dry_run=true leave every metadata table and every blob in the
\* object store exactly as before the call.
DryRunChangesNothing ==
    [][(\/ Restore(FileNames, VersionSelectors \cup BeforeSelectors,
                   {TRUE}, {0})
        \/ SnapshotRestore(SnapshotNames, BOOLEAN, {TRUE}, {0})
        \/ Gc(Policies, {TRUE}, {0}))
       => UNCHANGED <<dbVars, blobs>>]_vars

\* a dry run of gc has just reported a version it would prune and an object
\* it would collect, and a version of the file beyond its current one exists
DryRunWitness ==
    /\ result.op = "gc" /\ result.status = "ok" /\ result.dry_run
    /\ result.versions_pruned >= 1
    /\ result.processed_objects >= 1
    /\ Cardinality(versions) >= 2

\* the (file_id, version_id) pairs of a snapshot
entry_pairs(es, snapshot_id) ==
    {<<e.file_id, e.version_id>> : e \in {x \in es : x.snapshot_id = snapshot_id}}

\* C27: from its creation until it is deleted by snapshot delete, the set of
\* (file_id, version_id) entries of a snapshot is unchanged by every later
\* write, soft-delete, rename, restore, snapshot restore, creation of other
\* snapshots, and gc.
SnapshotImmutable ==
    [][\A s \in snapshots :
          (\E t \in snapshots' : t.id = s.id)
          => entry_pairs(snapshot_entries', s.id)
               = entry_pairs(snapshot_entries, s.id)]_vars

\* a snapshot with an entry has outlived the deletion of an earlier snapshot,
\* and the file has moved on to a version the snapshot does not name
SnapshotImmutableWitness ==
    /\ \E s \in snapshots :
          /\ s.id = 2
          /\ \E e \in snapshot_entries :
                /\ e.snapshot_id = 2
                /\ files[e.file_id].current_version_id # e.version_id
    /\ ~\E s \in snapshots : s.id = 1
    /\ \E i \in DOMAIN events : events[i].action = "SNAPSHOT_DELETE"

\* C28: create(parent, name) followed by release of the returned handle with
\* no intervening write or truncate leaves the new file with exactly one
\* version, of size zero, which is its current version.
TouchCreatesV1 ==
    [][\A fh \in DOMAIN file_handles :
          LET inode == file_handles[fh].inode
          IN (/\ file_handles[fh].dirty
              /\ inode \in DOMAIN write_buffers
              /\ write_buffers[inode] = <<>>
              /\ Cardinality({v \in versions : v.file_id = inode}) = 1
              /\ release(fh) /\ UNCHANGED threadVars)
             => \E v \in versions' :
                   /\ {w \in versions' : w.file_id = inode} = {v}
                   /\ v.size_bytes = 0
                   /\ files'[inode].current_version_id = v.id]_vars

\* a created file was released unwritten and has two versions of size zero,
\* the second of them current
TouchCreatesV2 ==
    /\ result = FsOk("release")
    /\ file_handles = EmptyMap
    /\ \E inode \in DOMAIN files :
          /\ ~files[inode].is_dir
          /\ Cardinality({v \in versions : v.file_id = inode}) = 2
          /\ \A v \in versions : v.file_id = inode => v.size_bytes = 0
          /\ \E v \in versions :
                /\ v.file_id = inode
                /\ v.id = files[inode].current_version_id
                /\ \E w \in versions : w.file_id = inode /\ w.id < v.id

\* C29: a write W2 issued on an inode at any time after a flush of an earlier
\* write W1 on it has started, also while the worker thread is still storing
\* the blob or committing the version, works on a buffer seeded from the
\* content of that flush, so that the version the flush of W2 produces
\* contains the bytes of W1 wherever W2 does not overwrite them.
NoLostUpdate ==
    [][\A j \in flush_jobs :
          (/\ j.pc \in {"store", "commit", "cache"}
           /\ \A k \in flush_jobs : k.inode = j.inode => k = j
           /\ j.inode \notin DOMAIN write_buffers
           /\ j.inode \in DOMAIN write_buffers')
          => \E offset \in {0, 1}, buf \in WriteBufs :
                write_buffers'[j.inode] = splice(j.data, offset, buf)]_vars

\* the file has a version <<1>> and a later version <<0, 2>>: the write of 2
\* at offset 1, made while <<1>> was being flushed, started from the empty
\* content and its flush dropped the 1
LostUpdate ==
    \E v, w \in versions :
       /\ v.file_id = w.file_id
       /\ v.id < w.id
       /\ v.object_hash = compute_hash(<<1>>)
       /\ w.object_hash = compute_hash(<<0, 2>>)
       /\ files[w.file_id].current_version_id = w.id

\* C30: after a real gc that completes successfully, no object row with
\* ref_count <= 0 remains unless a version row still references its hash
\* (such objects are kept, their blob is kept, and each is counted in
\* skipped_referenced); for every object row the gc deleted, the blob is
\* absent from the object store; and no object with ref_count >= 1 is deleted.
GcOrphanCollection ==
    [][(/\ result'.op = "gc"
        /\ result'.status = "ok"
        /\ Gc(Policies, {FALSE}, {0}))
       => LET pruned == versions \ versions'
              referenced(h) == \E v \in versions' : v.object_hash = h
              kept(h) == \E p \in Range(objects') : p.hash = h
              after_prune(o) ==
                  o.ref_count
                    - Cardinality({r \in pruned : r.object_hash = o.hash})
          IN /\ \A p \in Range(objects') :
                   p.ref_count <= 0 => referenced(p.hash)
             /\ \A o \in Range(objects) :
                   (after_prune(o) <= 0 /\ referenced(o.hash))
                   => /\ kept(o.hash)
                      /\ o.hash \in DOMAIN blobs => o.hash \in DOMAIN blobs'
             /\ result'.skipped_referenced =
                   Cardinality({p \in Range(objects') : p.ref_count <= 0})
             /\ \A o \in Range(objects) :
                   ~kept(o.hash)
                   => /\ o.hash \notin DOMAIN blobs'
                      /\ after_prune(o) <= 0]_vars

\* a gc has just deleted one orphan, row and blob, and skipped another whose
\* hash a version still names
GcOrphanCollectionWitness ==
    /\ result.op = "gc" /\ result.status = "ok" /\ ~result.dry_run
    /\ result.processed_objects >= 1
    /\ result.skipped_referenced >= 1
    /\ \E p \in Range(objects) :
          /\ p.ref_count <= 0
          /\ p.hash \in DOMAIN blobs
          /\ \E v \in versions : v.object_hash = p.hash
    /\ \E v \in versions : v.size_bytes > 0

\* C31: for any reachable state and any policy, the versions_pruned,
\* processed_objects and reclaimed_bytes reported by gc with dry_run=true
\* equal the values reported by a real gc with the same policy started from
\* the same state.
DryRunProjection ==
    \A policy \in Policies :
       LET dry == gc_command(Db, policy.keep_last, policy.before, TRUE, 0)
           real == gc_command(Db, policy.keep_last, policy.before, FALSE, 0)
       IN dry.result.status = "ok"
          => /\ real.result.status = "ok"
             /\ real.result.versions_pruned = dry.result.versions_pruned
             /\ real.result.processed_objects = dry.result.processed_objects
             /\ real.result.reclaimed_bytes = dry.result.reclaimed_bytes

\* a real gc --keep-last 1 has just been refused, from a state in which the
\* dry run of the same policy reports a version pruned and an object collected
DryRunPromisesRefusedGc ==
    /\ result.op = "gc" /\ result.status = "error"
    /\ LET dry == gc_command(Db, Some(1), None, TRUE, 0)
       IN /\ dry.result.status = "ok"
          /\ dry.result.versions_pruned >= 1
          /\ dry.result.processed_objects >= 1
          /\ dry.result.reclaimed_bytes >= 1

\* the content a write starts from, as the statement has it: the buffer of
\* the inode, or the blob of its current version when there is no buffer
content_before_write(inode) ==
    IF inode \in DOMAIN write_buffers THEN write_buffers[inode]
    ELSE LET version == get_current_version(Db, inode)
         IN IF version = {} THEN <<>>
            ELSE blobs[(CHOOSE v \in version : TRUE).object_hash]

\* C32: write(handle, off, b) on an inode whose buffer (or, if no buffer
\* exists, current blob) has content c of length n leaves a buffer of length
\* max(n, off+|b|) whose bytes in [off, off+|b|) equal b, whose bytes in
\* [n, off) are zero, and whose other bytes equal c; it marks the handle dirty.
WriteSplice ==
    [][\A fh \in DOMAIN file_handles, off \in {0, 1}, b \in WriteBufs :
          LET inode == file_handles[fh].inode
              c == content_before_write(inode)
              n == Len(c)
          IN (/\ result'.status = "ok"
              /\ write(fh, off, b) /\ UNCHANGED threadVars)
             => LET data == write_buffers'[inode]
                IN /\ Len(data) = IF n > off + Len(b) THEN n ELSE off + Len(b)
                   /\ \A i \in 1..Len(data) :
                         data[i] = IF i > off /\ i <= off + Len(b)
                                   THEN b[i - off]
                                   ELSE IF i > n THEN 0 ELSE c[i]
                   /\ file_handles'[fh].dirty]_vars

\* after a write: the current version of the file is the empty one an operator
\* restore made current, the adapter still caches the hash of the flushed
\* one-byte version, and the two-byte buffer starts with that version's byte
WriteSpliceStale ==
    \E fh \in DOMAIN file_handles :
       LET inode == file_handles[fh].inode
       IN /\ result = FsOk("write")
          /\ file_handles[fh].dirty
          /\ inode \in DOMAIN write_buffers
          /\ Len(write_buffers[inode]) = 2
          /\ inode \in DOMAIN inode_hash_cache
          /\ blobs[inode_hash_cache[inode]] = <<write_buffers[inode][1]>>
          /\ \E v \in get_current_version(Db, inode) :
                /\ v.size_bytes = 0
                /\ v.object_hash # inode_hash_cache[inode]
          /\ events[Len(events)].action = "RESTORE"

\* C33: after write(h, off, b) returns, a read of [off, off+|b|) through any
\* open handle on the same inode returns b until a later write or truncate
\* changes that range, also while a flush of that inode is in progress in a
\* worker thread: a read made while the flush holds the written content, with
\* no write since, returns that content.
ReadYourWrites ==
    [][\A j \in flush_jobs, fh \in DOMAIN file_handles :
          (/\ j.pc \in {"store", "commit", "cache"}
           /\ \A k \in flush_jobs : k.inode = j.inode => k = j
           /\ file_handles[fh].inode = j.inode
           /\ j.inode \notin DOMAIN write_buffers
           /\ read(fh, 0, MaxReadLength) /\ UNCHANGED threadVars)
          => /\ result'.status = "ok"
             /\ result'.data = slice(j.data, 0, MaxReadLength)]_vars

\* a read has just returned the empty content while the flush of the byte
\* written before it was still in its worker thread
ReadMissesWrite ==
    /\ result = [op |-> "fuse", status |-> "ok", data |-> <<>>]
    /\ \E j \in flush_jobs :
          /\ j.pc \in {"store", "commit", "cache"}
          /\ j.data # <<>>
          /\ j.inode \notin DOMAIN write_buffers

\* C34: whenever the write buffer of an inode is discarded (on flush or on
\* the last release of the inode), its content equals the content of the
\* inode's current version; a truncate performed while no handle is open on
\* the inode and a buffer whose flush failed are not silently lost.
NoDirtyDataDropped ==
    [][\A inode \in DOMAIN write_buffers :
          inode \notin DOMAIN write_buffers'
          => \E v \in versions' :
                /\ v.id = files'[inode].current_version_id
                /\ v.object_hash = compute_hash(write_buffers[inode])
                /\ v.size_bytes = Len(write_buffers[inode])]_vars

\* a flush has failed and taken the buffer with it: the one-byte content a
\* truncate had put there is in the object store, in no version and in no
\* buffer, and the handle is still marked dirty
DirtyDataDropped ==
    /\ result = FsError("flush", "OperationalError")
    /\ write_buffers = EmptyMap
    /\ compute_hash(<<0>>) \in DOMAIN blobs
    /\ \A v \in versions : v.size_bytes = 0
    /\ \E fh \in DOMAIN file_handles : file_handles[fh].dirty
\* C35: the committed tables, which are what another connection reads, never
\* hold a version row that its file has not been pointed to or that has no
\* event: the statements of a write pipeline are committed together
SerializedWrites ==
    \A v \in versions :
        /\ files[v.file_id].current_version_id # NULL
        /\ files[v.file_id].current_version_id >= v.id
        /\ \E i \in DOMAIN events : events[i].version_id = v.id

\* a directory made by the event loop is committed together with the version
\* row of a flush still running, which the file does not point to yet
TornPipelineCommitted ==
    /\ result = FsOk("mkdir")
    /\ \E j \in flush_jobs :
          /\ j.pc = "update_file"
          /\ \E v \in versions :
                /\ v.id = j.version_id
                /\ files[v.file_id].current_version_id < v.id
                /\ \A i \in DOMAIN events : events[i].version_id # v.id
\* C36: once the flushes and the collections running side by side have
\* finished, the blob of every committed version is in the object store
BlobPresentAfterGc ==
    flush_jobs = {} => \A v \in versions : exists(blobs, v.object_hash)

\* a finished flush whose store_sync skipped the write left a current version
\* whose blob a collection deleted in between
FlushReferencesCollectedBlob ==
    /\ flush_jobs = {}
    /\ result = FsOk("flush")
    /\ \E i \in DOMAIN files :
          /\ i \in DOMAIN inode_hash_cache
          /\ ~exists(blobs, inode_hash_cache[i])
          /\ \E v \in versions :
                /\ v.id = files[i].current_version_id
                /\ v.object_hash = inode_hash_cache[i]
          /\ \E k \in DOMAIN objects :
                /\ objects[k].hash = inode_hash_cache[i]
                /\ objects[k].ref_count = 1
\* C37: with no flush of the inode in progress, an entry of the adapter's
\* hash/size cache for a live file holds the hash and the size of the file's
\* current version in the metadata store
CacheCoherence ==
    \A i \in DOMAIN inode_hash_cache :
        (get_file(Db, i) # NULL /\ \A j \in flush_jobs : j.inode # i) =>
            \A v \in get_current_version(Db, i) :
                /\ inode_hash_cache[i] = v.object_hash
                /\ inode_size_cache[i] = v.size_bytes

\* after an operator's restore of a mounted file the cache holds a size that
\* is not the size of the version the restore made current
CacheIncoherentAfterRestore ==
    /\ events # <<>>
    /\ events[Len(events)].action = "RESTORE"
    /\ flush_jobs = {}
    /\ \E i \in DOMAIN inode_size_cache :
          /\ get_file(Db, i) # NULL
          /\ \E v \in get_current_version(Db, i) :
                /\ v.id = events[Len(events)].version_id
                /\ inode_size_cache[i] # v.size_bytes
\* C38: the blob of the reserved empty hash, stored at initialization, is in
\* the object store in every reachable state
EmptyBlobPresent == exists(blobs, EMPTY_HASH)

\* a collection that pruned a zero-length version took the empty object for
\* an orphan and deleted its blob while the file is live
EmptyBlobCollected ==
    /\ result.op = "gc" /\ result.status = "ok"
    /\ result.versions_pruned >= 1
    /\ result.processed_objects >= 1
    /\ ~exists(blobs, EMPTY_HASH)
    /\ \A k \in DOMAIN objects : objects[k].hash # EMPTY_HASH
    /\ \E i \in DOMAIN files : ~files[i].is_dir /\ ~files[i].is_deleted
\* C39: a rename that succeeds leaves the path, the parent and the name of
\* every row that is neither the renamed file nor below it as they were,
\* whatever characters the names are made of
RenameFrame ==
    [][\A src \in DOMAIN files, new_parent_inode \in DOMAIN files,
          new_name_str \in {<<"e">>} :
         (/\ ~files[src].is_deleted
          /\ result' = FsOk("rename")
          /\ vfs_rename(files[src].parent_id, files[src].name,
                        new_parent_inode, new_name_str)
          /\ rename(files[src].parent_id, files[src].name,
                    new_parent_inode, new_name_str))
         => \A i \in DOMAIN files :
               ~below_or_self(i, src)
               => /\ files'[i].path = files[i].path
                  /\ files'[i].parent_id = files[i].parent_id
                  /\ files'[i].name = files[i].name]_vars

\* after a rename to /e a file that lies in another directory, /d, has a path
\* below /e
RenameMovedStranger ==
    /\ result = FsOk("rename")
    /\ \E i, p, e \in DOMAIN files :
          /\ files[e].path = <<Slash, "e">>
          /\ files[p].path = <<Slash, "d">>
          /\ files[i].parent_id = p
          /\ files[i].name = <<"a">>
          /\ files[i].path = <<Slash, "e", Slash, "a">>
\* C40: a create or a mkdir whose path is the path of a file row, live or
\* soft-deleted, fails and leaves every table as it was: no second row for
\* the path, and a soft-deleted row stays soft-deleted
CreateOnOccupiedPath ==
    [][\A parent_inode \in DOMAIN files, name_str \in {<<"a">>, <<"d">>} :
         (/\ get_file(Db, parent_inode) # NULL
          /\ \E i \in DOMAIN files :
                files[i].path = full_path(files[parent_inode].path, name_str)
          /\ \/ create(parent_inode, name_str)
             \/ mkdir(parent_inode, name_str))
         => /\ result'.status = "error"
            /\ UNCHANGED dbVars]_vars

\* a create or mkdir was refused with IntegrityError while every row but the
\* root is soft-deleted: the path it asked for is that of a soft-deleted row
CreateOnSoftDeletedRefused ==
    /\ result = FsError("create", "IntegrityError")
    /\ Len(files) >= 2
    /\ \A i \in DOMAIN files : i # ROOT_INODE => files[i].is_deleted
    /\ ~unique_path_violation(files)

====
